---------------------------- MODULE Spec2Model ----------------------------
(***************************************************************************)
(* Model of the werewolf game orchestration core: the phase transition     *)
(* table, the handler registry and its handlers, the vote collector, the   *)
(* night resolver and the role builder / assigner.                         *)
(*                                                                         *)
(* JavaScript Map and Set keep insertion order, and that order is used by  *)
(* the code (tie candidates, iteration of alive players), so a Map is a    *)
(* sequence of [k, v] records with distinct keys and a Set is a sequence   *)
(* without repetition.  Player ids are positive integers; 0 stands for     *)
(* undefined.  Wall-clock fields (phaseStartTime, phaseDeadline,           *)
(* timestamps) and display names are not represented.                      *)
(***************************************************************************)
EXTENDS Integers, Sequences, FiniteSets, TLC

VARIABLES
  state,        \* the GameState owned by the state machine
  lastError,    \* outcome of the last call: "none", "IllegalTransition", "HandlerError", "Ignored"
  revotes,      \* history: entries into DAY_REVOTE since the last entry into DAY_FREE_TALK
  nr,           \* a NightResolver object: its actions and the value its last call returned
  dispatch,     \* how events reach the handlers: "table" (GameFSM.transition),
                \* "registry" (HandlerRegistry.getHandler alone), "none" (no machine)
  ret,          \* the value returned by the last call of VictoryChecker.check or
                \* RoleBuilder.buildRoles made by a caller outside the handlers
  mutex,        \* the AsyncMutex of the match and the position of each caller of
                \* runExclusive
  timer         \* the PhaseTimer of the match, the timeouts the host holds for it
                \* and the log of the callbacks that have fired

vars == <<state, lastError, revotes, nr, dispatch, ret, mutex, timer>>

----------------------------------------------------------------------------
(* Bounds of the model *)

\* seeds.turns and seeds.roles range over 0..MaxSeed
MaxSeed == 1
\* VOTE events are sent by players 1..MaxVoter, for targets 1..MaxVoter
MaxVoter == 2
\* the day number does not exceed MaxDay
MaxDay == 2
\* players of the state handed to a stand-alone NightResolver
MaxNightPlayers == 3
\* VOTE_COMPLETE is sent while fewer than MaxDeaths deaths are recorded
MaxDeaths == 1
\* night events are sent by players 1..MaxActor and the first werewolf, for targets 1..MaxActor
MaxActor == 1
\* players of the state handed to a stand-alone VictoryChecker
MaxVictoryPlayers == 4
\* a pack list handed to a stand-alone RoleBuilder has at most MaxPacks entries
MaxPacks == 4
\* with no player input, the day number does not exceed MaxTimerDay
MaxTimerDay == 8
\* the pack-selection seed handed to buildRandomRoles is 2..MaxPackSeed + 2
MaxPackSeed == 63
\* players of the state handed to a stand-alone VoteCollector
MaxVotePlayers == 3
\* seeds.turns of that state is 3..MaxVoteSeed + 3
MaxVoteSeed == 1
\* callers 1..MaxCallers call runExclusive on the mutex, each any number of times
MaxCallers == 4
\* a PhaseTimer is started at most MaxStarts times, nested starts included
MaxStarts == 3
\* the clock of the host advances in steps of TickStep seconds
TickStep == 5

----------------------------------------------------------------------------
(* Sequences as ordered sets, sequences of [k, v] as ordered maps *)

NoPlayer == 0
NoRole == "undefined"

Range(s) == {s[i] : i \in DOMAIN s}
SeqHas(s, x) == \E i \in DOMAIN s : s[i] = x
SeqRemove(s, x) == SelectSeq(s, LAMBDA y : y # x)
IndexOf(s, x) == IF SeqHas(s, x) THEN CHOOSE i \in DOMAIN s : s[i] = x /\ \A j \in 1..(i - 1) : s[j] # x ELSE 0

MapHas(m, key) == \E i \in DOMAIN m : m[i].k = key
MapGet(m, key, dflt) == IF MapHas(m, key) THEN m[CHOOSE i \in DOMAIN m : m[i].k = key].v ELSE dflt
MapSet(m, key, val) ==
  IF MapHas(m, key)
  THEN [i \in DOMAIN m |-> IF m[i].k = key THEN [k |-> key, v |-> val] ELSE m[i]]
  ELSE Append(m, [k |-> key, v |-> val])
MapKeys(m) == [i \in DOMAIN m |-> m[i].k]
MapValues(m) == [i \in DOMAIN m |-> m[i].v]

RECURSIVE SeqMax(_)
SeqMax(s) == IF Len(s) = 1 THEN s[1] ELSE LET r == SeqMax(Tail(s)) IN IF s[1] >= r THEN s[1] ELSE r

----------------------------------------------------------------------------
(* SeededRNG: a deterministic generator; an rng value is its internal state *)

RngM == 64
RngA == 13
RngC == 7

RngNew(seed) == seed % RngM
RngAdvance(s) == (RngA * s + RngC) % RngM
\* nextInt(min, max) after the advance: min + floor(next() * (max - min))
RngNextInt(s, min, max) == min + ((RngAdvance(s) * (max - min)) \div RngM)
\* choice(arr): the chosen element (arr non-empty); callers step the
\* generator with RngAdvance
RngChoice(s, arr) == arr[RngNextInt(s, 0, Len(arr)) + 1]

Swap(arr, i, j) == [arr EXCEPT ![i] = arr[j], ![j] = arr[i]]
RECURSIVE ShuffleFrom(_, _, _)
\* Fisher-Yates from index i (1-based) down to 2
ShuffleFrom(s, arr, i) ==
  IF i <= 1 THEN arr
  ELSE ShuffleFrom(RngAdvance(s), Swap(arr, i, RngNextInt(s, 0, i) + 1), i - 1)
RngShuffle(s, arr) == ShuffleFrom(s, arr, Len(arr))
\* the generator after shuffle(arr): one draw per swap
RECURSIVE RngAfterDraws(_, _)
RngAfterDraws(s, n) == IF n <= 0 THEN s ELSE RngAfterDraws(RngAdvance(s), n - 1)
RngAfterShuffle(s, arr) == RngAfterDraws(s, Len(arr) - 1)
\* sample(arr, n): the first n elements of the shuffled array (n <= Len(arr))
RngSample(s, arr, n) == SubSeq(RngShuffle(s, arr), 1, n)

----------------------------------------------------------------------------
(* Roles, packs, RoleBuilder, RoleAssigner *)

\* the Role type: base roles and pack roles
Roles ==
  {"VILLAGER", "WEREWOLF", "SEER", "MEDIUM", "MADMAN", "KNIGHT",
   "FOX", "BETRAYER", "CAT", "FREEMASON", "HUNTER", "FANATIC", "WHITE_WOLF"}

BASE_ROLES_11 ==
  <<"WEREWOLF", "WEREWOLF", "SEER", "MEDIUM", "MADMAN", "KNIGHT",
    "VILLAGER", "VILLAGER", "VILLAGER", "VILLAGER", "VILLAGER">>

Packs == {"FOX", "FREEMASON", "HUNTER", "FANATIC", "WHITE_WOLF"}

ALL_PACK_CONFIGS == [p \in Packs |->
  CASE p = "FOX" -> [replaces |-> <<"VILLAGER">>, newRoles |-> <<"FOX">>,
                     constraints |-> {"THIRD_PARTY_EXCLUSIVE"}]
    [] p = "FREEMASON" -> [replaces |-> <<"VILLAGER", "VILLAGER">>,
                           newRoles |-> <<"FREEMASON", "FREEMASON">>,
                           constraints |-> {"WEIGHT_REDUCTION"}]
    [] p = "HUNTER" -> [replaces |-> <<"VILLAGER">>, newRoles |-> <<"HUNTER">>,
                        constraints |-> {}]
    [] p = "FANATIC" -> [replaces |-> <<"MADMAN">>, newRoles |-> <<"FANATIC">>,
                         constraints |-> {"JUDGMENT_EXCLUSIVE", "WEIGHT_REDUCTION"}]
    [] p = "WHITE_WOLF" -> [replaces |-> <<"WEREWOLF">>, newRoles |-> <<"WHITE_WOLF">>,
                            constraints |-> {"JUDGMENT_EXCLUSIVE"}]]

ROLE_TEAMS(role) ==
  CASE role \in {"VILLAGER", "SEER", "MEDIUM", "KNIGHT", "FREEMASON", "HUNTER", "CAT"} -> "VILLAGE"
    [] role \in {"WEREWOLF", "WHITE_WOLF", "MADMAN", "FANATIC"} -> "WEREWOLF"
    [] role \in {"FOX", "BETRAYER"} -> "FOX"
    [] OTHER -> "undefined"

\* validatePacks(packs).valid
CountWith(packs, c) == Cardinality({i \in DOMAIN packs : c \in ALL_PACK_CONFIGS[packs[i]].constraints})
validatePacks_NoJudgment(packs) ==
  /\ Cardinality(Range(packs)) = Len(packs)
  /\ CountWith(packs, "THIRD_PARTY_EXCLUSIVE") <= 1
validatePacks(packs) ==
  /\ Cardinality(Range(packs)) = Len(packs)
  /\ CountWith(packs, "THIRD_PARTY_EXCLUSIVE") <= 1
  /\ CountWith(packs, "JUDGMENT_EXCLUSIVE") <= 1

RECURSIVE ReplaceFrom(_, _, _)
\* the loop of applyPackSubstitution from its i-th replacement; <<>> stands for the throw
ReplaceFrom(roles, config, i) ==
  IF i > Len(config.replaces) THEN roles
  ELSE LET index == IndexOf(roles, config.replaces[i])
       IN IF index = 0 THEN <<>>
          ELSE ReplaceFrom([roles EXCEPT ![index] = config.newRoles[i]], config, i + 1)
applyPackSubstitution_FirstOnly(roles, pack) ==
  LET index == IndexOf(roles, ALL_PACK_CONFIGS[pack].replaces[1])
  IN IF index = 0 THEN <<>> ELSE [roles EXCEPT ![index] = ALL_PACK_CONFIGS[pack].newRoles[1]]
applyPackSubstitution(roles, pack) == ReplaceFrom(roles, ALL_PACK_CONFIGS[pack], 1)

RECURSIVE ApplyPacks(_, _)
ApplyPacks(roles, packs) ==
  IF packs = <<>> \/ roles = <<>> THEN roles
  ELSE ApplyPacks(applyPackSubstitution(roles, Head(packs)), Tail(packs))
\* buildRoles(packs, seed): the role list, or <<>> when it throws
buildRoles(packs) ==
  IF ~validatePacks(packs) THEN <<>>
  ELSE LET roles == ApplyPacks(BASE_ROLES_11, packs)
       IN IF Len(roles) # 11 THEN <<>> ELSE roles

maxAttempts == 100
allPacks == <<"FOX", "FREEMASON", "HUNTER", "FANATIC", "WHITE_WOLF">>
\* selectRandomPacks(rng, count)
selectRandomPacks(rng, count) == RngSample(rng, allPacks, count)

RECURSIVE AttemptFrom(_, _, _)
\* the loop of buildRandomRoles from the given attempt; attempts is the
\* number of candidate pack sets sampled before the return
AttemptFrom(rng, numPacks, attempt) ==
  IF attempt >= maxAttempts
  THEN [roles |-> BASE_ROLES_11, packs |-> <<>>, attempts |-> attempt]
  ELSE LET candidatePacks == selectRandomPacks(rng, numPacks)
       IN IF validatePacks(candidatePacks)
          THEN [roles |-> buildRoles(candidatePacks), packs |-> candidatePacks,
                attempts |-> attempt + 1]
          ELSE AttemptFrom(RngAfterShuffle(rng, allPacks), numPacks, attempt + 1)

buildRandomRoles_FirstCandidate(seed) ==
  LET rng == RngNew(seed)
      numPacks == RngNextInt(rng, 0, 4)
      candidatePacks == selectRandomPacks(RngAdvance(rng), numPacks)
  IN [roles |-> buildRoles(candidatePacks), packs |-> candidatePacks,
      attempts |-> IF numPacks = 0 THEN 0 ELSE 1]
\* buildRandomRoles(seed): { roles, packs }
buildRandomRoles(seed) ==
  LET rng == RngNew(seed)
      numPacks == RngNextInt(rng, 0, 4)
  IN IF numPacks = 0
     THEN [roles |-> BASE_ROLES_11, packs |-> <<>>, attempts |-> 0]
     ELSE AttemptFrom(RngAdvance(rng), numPacks, 0)

\* RoleAssigner.assign(players, roles, seed): the Map id -> role, or <<>> when it throws
assign_NoSizeCheck(players, roles, seed) ==
  LET shuffledRoles == RngShuffle(RngNew(seed), roles)
  IN [i \in DOMAIN players |->
        [k |-> players[i].id,
         v |-> IF i \in DOMAIN shuffledRoles THEN shuffledRoles[i] ELSE NoRole]]
assign(players, roles, seed) ==
  IF Len(players) # Len(roles) THEN <<>>
  ELSE LET shuffledRoles == RngShuffle(RngNew(seed), roles)
       IN [i \in DOMAIN players |-> [k |-> players[i].id, v |-> shuffledRoles[i]]]

getDivinationResult(role) ==
  CASE role = "WEREWOLF" -> "WEREWOLF"
    [] role = "WHITE_WOLF" -> "HUMAN"
    [] role = "FANATIC" -> "WEREWOLF"
    [] OTHER -> "HUMAN"

getMediumResult_AsDivination(role) == getDivinationResult(role)
getMediumResult(role) ==
  CASE role \in {"WEREWOLF", "WHITE_WOLF"} -> "WEREWOLF"
    [] OTHER -> "HUMAN"

----------------------------------------------------------------------------
(* Phases, events, the transition table *)

Phases ==
  {"LOBBY", "INIT", "ASSIGN_ROLES", "DAY_FREE_TALK", "DAY_VOTE", "DAY_REVOTE_TALK",
   "DAY_REVOTE", "LAST_WILL", "NIGHT_WOLF_CHAT", "NIGHT_ACTIONS", "DAWN", "CHECK_END",
   "GAME_OVER"}

EventTypes ==
  {"START_GAME", "ROLES_ASSIGNED", "START_DAY", "START_VOTE", "VOTE", "VOTE_COMPLETE",
   "CHECK_VICTORY", "START_NIGHT", "WOLF_CHAT_MESSAGE", "ENTER_PHASE",
   "START_NIGHT_ACTIONS", "NIGHT_ACTION", "WOLF_ATTACK", "RESOLVE_NIGHT",
   "NIGHT_COMPLETE", "START_DAWN", "DAWN_COMPLETE", "LAST_WILL_COMPLETE", "GAME_END"}

NoTransitions == [e \in {} |-> "null"]

GAME_OVER_TRANSITIONS_Restart == ("START_GAME" :> "INIT")
GAME_OVER_TRANSITIONS == NoTransitions

PHASE_TRANSITIONS == [p \in Phases |->
  CASE p = "LOBBY" -> ("START_GAME" :> "INIT")
    [] p = "INIT" -> ("ROLES_ASSIGNED" :> "ASSIGN_ROLES")
    [] p = "ASSIGN_ROLES" -> ("START_DAY" :> "DAY_FREE_TALK")
    [] p = "DAY_FREE_TALK" -> ("START_VOTE" :> "DAY_VOTE")
    [] p = "DAY_VOTE" -> ("VOTE" :> "DAY_VOTE" @@ "VOTE_COMPLETE" :> "LAST_WILL"
                          @@ "START_NIGHT" :> "NIGHT_WOLF_CHAT")
    [] p = "DAY_REVOTE_TALK" -> ("START_VOTE" :> "DAY_REVOTE")
    [] p = "DAY_REVOTE" -> ("VOTE" :> "DAY_REVOTE" @@ "VOTE_COMPLETE" :> "LAST_WILL"
                            @@ "START_NIGHT" :> "NIGHT_WOLF_CHAT")
    [] p = "LAST_WILL" -> ("LAST_WILL_COMPLETE" :> "CHECK_END")
    [] p = "NIGHT_WOLF_CHAT" -> ("WOLF_CHAT_MESSAGE" :> "NIGHT_WOLF_CHAT"
                                 @@ "START_NIGHT_ACTIONS" :> "NIGHT_ACTIONS"
                                 @@ "NIGHT_COMPLETE" :> "NIGHT_ACTIONS")
    [] p = "NIGHT_ACTIONS" -> ("NIGHT_ACTION" :> "NIGHT_ACTIONS"
                               @@ "WOLF_ATTACK" :> "NIGHT_ACTIONS"
                               @@ "START_DAWN" :> "DAWN")
    [] p = "DAWN" -> ("DAWN_COMPLETE" :> "CHECK_END")
    [] p = "CHECK_END" -> ("START_DAY" :> "DAY_FREE_TALK" @@ "GAME_END" :> "GAME_OVER")
    [] p = "GAME_OVER" -> GAME_OVER_TRANSITIONS]

isValidTransition_Any(currentPhase, eventType) == TRUE
isValidTransition(currentPhase, eventType) ==
  eventType \in DOMAIN PHASE_TRANSITIONS[currentPhase]

getNextPhase(currentPhase, eventType) ==
  IF eventType \in DOMAIN PHASE_TRANSITIONS[currentPhase]
  THEN PHASE_TRANSITIONS[currentPhase][eventType]
  ELSE "null"

----------------------------------------------------------------------------
(* VoteCollector *)

\* submitVote(vote) on a collector holding `votes`: this.votes.set
submitVote(votes, vote) == MapSet(votes, vote.playerId, vote.targetPlayerId)

RECURSIVE FillFrom(_, _, _, _)
\* the loop of fillMissingVotes over alivePlayers from index i
FillFrom(alive, result, rng, i) ==
  IF i > Len(alive) THEN result
  ELSE LET playerId == alive[i]
           validTargets == SeqRemove(alive, playerId)
       IN IF ~MapHas(result, playerId) /\ Len(validTargets) > 0
          THEN FillFrom(alive, MapSet(result, playerId, RngChoice(rng, validTargets)),
                        RngAdvance(rng), i + 1)
          ELSE FillFrom(alive, result, rng, i + 1)

fillMissingVotes(s, votes) ==
  FillFrom(s.alivePlayers, votes, RngNew(s.seeds.turns + s.dayNumber), 1)

RECURSIVE CountFrom(_, _, _)
CountFrom(targets, counts, i) ==
  IF i > Len(targets) THEN counts
  ELSE CountFrom(targets, MapSet(counts, targets[i], MapGet(counts, targets[i], 0) + 1), i + 1)
countVotes(votes) == CountFrom(MapValues(votes), <<>>, 1)

\* the targets holding the maximum count, in the order of the counts Map
MaxCandidates(counts) ==
  LET maxVotes == SeqMax(MapValues(counts))
  IN MapKeys(SelectSeq(counts, LAMBDA c : c.v = maxVotes))

\* resolveExecution(counts, seed, dayNumber), for a non-empty counts
resolveExecution(counts, seed, dayNumber) ==
  LET candidates == MaxCandidates(counts)
  IN IF Len(candidates) = 1 THEN candidates[1]
     ELSE RngChoice(RngNew(seed + dayNumber + 1000), candidates)

hasTie_Never(counts) == FALSE
hasTie(counts) ==
  IF Len(counts) = 0 THEN FALSE ELSE Len(MaxCandidates(counts)) > 1

\* finalizeVotes(state) of a collector holding `votes`; threw: 'No votes to resolve'
finalizeVotes(s, votes) ==
  LET completeVotes == fillMissingVotes(s, votes)
      counts == countVotes(completeVotes)
  IN IF Len(counts) = 0
     THEN [threw |-> TRUE, executedPlayerId |-> NoPlayer, votes |-> completeVotes,
           counts |-> counts, tieResolved |-> FALSE]
     ELSE [threw |-> FALSE,
           executedPlayerId |-> resolveExecution(counts, s.seeds.turns, s.dayNumber),
           votes |-> completeVotes, counts |-> counts, tieResolved |-> hasTie(counts)]

----------------------------------------------------------------------------
(* ActionFallbackEngine: the vote generated for a player who has not voted *)

\* the sum of the character codes of a player id (ids are the decimal
\* strings "1" .. "9") and of the action name
idCharCodeSum(playerId) == 48 + playerId
actionCharCodeSum(action) ==
  CASE action = "vote" -> 118 + 111 + 116 + 101
    [] action = "seer" -> 115 + 101 + 101 + 114
    [] action = "knight" -> 107 + 110 + 105 + 103 + 104 + 116

\* randomTarget(state, playerId, action, excludeWolves)
randomTarget(s, playerId, action, excludeWolves) ==
  LET rng == RngNew(s.seeds.turns + s.dayNumber + idCharCodeSum(playerId)
                      + actionCharCodeSum(action))
      others == SeqRemove(s.alivePlayers, playerId)
      notWolves == IF excludeWolves
                   THEN SelectSeq(others, LAMBDA id :
                          MapGet(s.roleAssignments, id, NoRole) \notin {"WEREWOLF", "WHITE_WOLF"})
                   ELSE others
      candidates == IF Len(notWolves) = 0 THEN <<playerId>> ELSE notWolves
  IN RngChoice(rng, candidates)

\* generateFallbackVote(state, playerId), for a player of state.players
generateFallbackVote(s, playerId) ==
  LET player == s.players[CHOOSE i \in DOMAIN s.players : s.players[i].id = playerId]
  IN IF player.lastBelief # NoPlayer THEN player.lastBelief
     ELSE randomTarget(s, playerId, "vote", FALSE)

----------------------------------------------------------------------------
(* NightResolver: its actions object is [divinations, protections, attack] *)

NoActions == [divinations |-> <<>>, protections |-> <<>>, attack |-> NoPlayer]

submitAction(a, playerId, actionType, targetPlayerId) ==
  CASE actionType = "DIVINE" ->
         [a EXCEPT !.divinations = MapSet(a.divinations, playerId, targetPlayerId)]
    [] actionType = "PROTECT" ->
         [a EXCEPT !.protections = MapSet(a.protections, playerId, targetPlayerId)]
    [] actionType = "ATTACK" -> [a EXCEPT !.attack = targetPlayerId]
    [] OTHER -> a

setWolfAttack(a, targetId) == [a EXCEPT !.attack = targetId]

resolveDivinations(a, s) ==
  LET known == SelectSeq(a.divinations, LAMBDA d : MapHas(s.roleAssignments, d.v))
  IN [i \in DOMAIN known |->
        [k |-> known[i].k,
         v |-> [targetPlayerId |-> known[i].v,
                result |-> getDivinationResult(MapGet(s.roleAssignments, known[i].v, NoRole))]]]

resolveProtections_None(a) == {}
resolveProtections(a) == Range(MapValues(a.protections))

resolveAttack(a, s, protectedPlayers) ==
  IF a.attack = NoPlayer THEN [deaths |-> <<>>, protectionResults |-> <<>>]
  ELSE
    LET targetId == a.attack
        wasProtected == targetId \in protectedPlayers
        protectionResults ==
          [i \in DOMAIN a.protections |->
             [k |-> a.protections[i].k,
              v |-> [targetPlayerId |-> a.protections[i].v,
                     success |-> (a.protections[i].v = targetId)]]]
        targetRole == MapGet(s.roleAssignments, targetId, NoRole)
        others == SeqRemove(s.alivePlayers, targetId)
        deaths ==
          IF ~wasProtected /\ SeqHas(s.alivePlayers, targetId)
          THEN IF targetRole = "CAT" /\ Len(others) > 0
               THEN <<targetId,
                      RngChoice(RngNew(s.seeds.turns + s.dayNumber + 1000), others)>>
               ELSE <<targetId>>
          ELSE <<>>
    IN [deaths |-> deaths, protectionResults |-> protectionResults]

resolveBetrayer(s, deaths) ==
  LET foxDied == \E i \in DOMAIN deaths : MapGet(s.roleAssignments, deaths[i], NoRole) = "FOX"
  IN IF foxDied
     THEN MapKeys(SelectSeq(s.roleAssignments,
                            LAMBDA e : /\ e.v = "BETRAYER"
                                       /\ SeqHas(s.alivePlayers, e.k)
                                       /\ ~SeqHas(deaths, e.k)))
     ELSE <<>>

RECURSIVE HunterFrom(_, _, _, _)
\* the loop of resolveHunter over deaths from index i
HunterFrom(s, deaths, hunterVictims, i) ==
  IF i > Len(deaths) THEN hunterVictims
  ELSE LET deadPlayerId == deaths[i]
           role == MapGet(s.roleAssignments, deadPlayerId, NoRole)
           alivePlayers ==
             SelectSeq(s.alivePlayers,
                       LAMBDA id : /\ id # deadPlayerId
                                   /\ ~SeqHas(deaths, id)
                                   /\ ~SeqHas(hunterVictims, id))
       IN IF role = "HUNTER" /\ SeqHas(s.alivePlayers, deadPlayerId) /\ Len(alivePlayers) > 0
          THEN HunterFrom(s, deaths,
                          Append(hunterVictims,
                                 RngChoice(RngNew(s.seeds.turns + s.dayNumber + 2000),
                                           alivePlayers)),
                          i + 1)
          ELSE HunterFrom(s, deaths, hunterVictims, i + 1)
\* every dead hunter shoots the first living player other than itself
resolveHunter_FirstAlive(s, deaths) ==
  LET hunters == SelectSeq(deaths, LAMBDA id : MapGet(s.roleAssignments, id, NoRole) = "HUNTER")
  IN IF Len(s.alivePlayers) > 1
     THEN [i \in DOMAIN hunters |-> SeqRemove(s.alivePlayers, hunters[i])[1]]
     ELSE <<>>
resolveHunter(s, deaths) == HunterFrom(s, deaths, <<>>, 1)

\* the placeholder of the source: no result is ever produced
resolveMedium(s) == <<>>

resolve(a, s) ==
  LET divinationResults == resolveDivinations(a, s)
      protectedPlayers == resolveProtections(a)
      attackResult == resolveAttack(a, s, protectedPlayers)
      betrayerDeaths == resolveBetrayer(s, attackResult.deaths)
      hunterVictims == resolveHunter(s, attackResult.deaths \o betrayerDeaths)
      mediumResults == resolveMedium(s)
  IN [deaths |-> attackResult.deaths \o betrayerDeaths \o hunterVictims,
      hunterVictims |-> hunterVictims,
      divinationResults |-> divinationResults,
      mediumResults |-> mediumResults,
      protectionResults |-> attackResult.protectionResults]

----------------------------------------------------------------------------
(* VictoryChecker *)

CountTeam(s, team) ==
  Cardinality({i \in DOMAIN s.alivePlayers :
                 ROLE_TEAMS(MapGet(s.roleAssignments, s.alivePlayers[i], NoRole)) = team})

\* the werewolves win only when they outnumber the others
check_Strict(s) ==
  LET villageCount == CountTeam(s, "VILLAGE")
      werewolfCount == CountTeam(s, "WEREWOLF")
      foxCount == CountTeam(s, "FOX")
  IN IF werewolfCount > villageCount + foxCount
     THEN (IF foxCount > 0 THEN "FOX" ELSE "WEREWOLF")
     ELSE IF werewolfCount = 0
          THEN (IF foxCount > 0 THEN "FOX" ELSE "VILLAGE")
          ELSE "undefined"
\* VictoryChecker.check(state): the winner, or "undefined" when the game continues
check(s) ==
  LET villageCount == CountTeam(s, "VILLAGE")
      werewolfCount == CountTeam(s, "WEREWOLF")
      foxCount == CountTeam(s, "FOX")
  IN IF werewolfCount >= villageCount + foxCount
     THEN (IF foxCount > 0 THEN "FOX" ELSE "WEREWOLF")
     ELSE IF werewolfCount = 0
          THEN (IF foxCount > 0 THEN "FOX" ELSE "VILLAGE")
          ELSE "undefined"

----------------------------------------------------------------------------
(* Handlers.  A handler maps (state, event) to the set of its possible        *)
(* outcomes [threw, nextState]; the set has several elements only where the   *)
(* source draws from Math.random.                                              *)

Event(type, playerId, targetId, actionType) ==
  [type |-> type, playerId |-> playerId, targetId |-> targetId, actionType |-> actionType]

Returns(s) == {[threw |-> FALSE, nextState |-> s]}
Throws(s) == {[threw |-> TRUE, nextState |-> s]}

HasPlayer(s, id) == \E i \in DOMAIN s.players : s.players[i].id = id

\* player.isAlive = false; state.alivePlayers.delete(id), done when the player is found
MarkDead(s, id) ==
  IF HasPlayer(s, id)
  THEN [s EXCEPT !.players = [i \in DOMAIN s.players |->
                                IF s.players[i].id = id
                                THEN [s.players[i] EXCEPT !.isAlive = FALSE]
                                ELSE s.players[i]],
                 !.alivePlayers = SeqRemove(s.alivePlayers, id)]
  ELSE s

Death(playerId, dayNumber, deathType) ==
  [playerId |-> playerId, dayNumber |-> dayNumber, deathType |-> deathType]

handleStartGame(s, ev) == Returns([s EXCEPT !.phase = "INIT"])

handleRolesAssigned(s, ev) ==
  LET roles == buildRoles(s.config.packs)
      roleAssignments == assign(s.players, roles, s.seeds.roles)
  IN IF roles = <<>> \/ roleAssignments = <<>>
     THEN Throws(s)
     ELSE Returns([s EXCEPT !.phase = "ASSIGN_ROLES", !.roleAssignments = roleAssignments])

handleStartDay(s, ev) == Returns([s EXCEPT !.phase = "DAY_FREE_TALK", !.dayNumber = 1])

handleStartVote(s, ev) == Returns([s EXCEPT !.phase = "DAY_VOTE"])

handleStartRevote(s, ev) == Returns([s EXCEPT !.phase = "DAY_REVOTE"])

handleVoteSubmission_NoTargetCheck(s, ev) ==
  IF ~SeqHas(s.alivePlayers, ev.playerId) THEN Throws(s)
  ELSE Returns([s EXCEPT !.votes = MapSet(s.votes, ev.playerId, ev.targetId)])
handleVoteSubmission(s, ev) ==
  IF ~SeqHas(s.alivePlayers, ev.playerId) THEN Throws(s)
  ELSE IF ~SeqHas(s.alivePlayers, ev.targetId) THEN Throws(s)
  ELSE Returns([s EXCEPT !.votes = MapSet(s.votes, ev.playerId, ev.targetId)])

\* the execution branch of handleVotePhase, up to the hunter's shot
Executed_StillAlive(s, executedPlayerId) ==
  [s EXCEPT !.executedPlayerId = executedPlayerId,
            !.deaths = Append(s.deaths, Death(executedPlayerId, s.dayNumber, "EXECUTED")),
            !.votes = <<>>,
            !.tiedPlayers = <<>>]
Executed(s, executedPlayerId) ==
  LET dead == MarkDead(s, executedPlayerId)
  IN [dead EXCEPT !.executedPlayerId = executedPlayerId,
                  !.deaths = Append(s.deaths, Death(executedPlayerId, s.dayNumber, "EXECUTED")),
                  !.votes = <<>>,
                  !.tiedPlayers = <<>>]

\* the hunter's shot: any of the alive players (Math.random)
HunterShot_NoRecord(s, hunterVictimId) ==
  IF HasPlayer(s, hunterVictimId) THEN MarkDead(s, hunterVictimId) ELSE s
HunterShot(s, hunterVictimId) ==
  IF HasPlayer(s, hunterVictimId)
  THEN [MarkDead(s, hunterVictimId) EXCEPT
          !.deaths = Append(s.deaths, Death(hunterVictimId, s.dayNumber, "HUNTER"))]
  ELSE s

\* the first tie: the tied players are stored and a revote is prepared
FirstTie_NoTiedPlayers(s, tiedPlayerIds) == [s EXCEPT !.phase = "DAY_REVOTE_TALK"]
FirstTie(s, tiedPlayerIds) ==
  [s EXCEPT !.tiedPlayers = tiedPlayerIds, !.phase = "DAY_REVOTE_TALK"]

\* still tied after the revote: no execution
RevoteTie_KeepVotes(s) == [s EXCEPT !.tiedPlayers = <<>>, !.phase = "CHECK_END"]
RevoteTie_TalkAgain(s) == [s EXCEPT !.votes = <<>>, !.phase = "DAY_REVOTE_TALK"]
RevoteTie(s) == [s EXCEPT !.votes = <<>>, !.tiedPlayers = <<>>, !.phase = "CHECK_END"]

handleVotePhase(s, ev) ==
  LET result == finalizeVotes(s, s.votes)
  IN IF result.threw THEN Throws(s)
     ELSE
       LET tiedPlayerIds == MaxCandidates(result.counts)
       IN IF Len(tiedPlayerIds) > 1 /\ s.phase = "DAY_VOTE"
          THEN Returns(FirstTie(s, tiedPlayerIds))
          ELSE IF Len(tiedPlayerIds) > 1 /\ s.phase = "DAY_REVOTE"
          THEN Returns(RevoteTie(s))
          ELSE
            LET ex == Executed(s, result.executedPlayerId)
                executedRole == MapGet(s.roleAssignments, result.executedPlayerId, NoRole)
            IN IF executedRole = "HUNTER" /\ Len(ex.alivePlayers) > 0
               THEN {[threw |-> FALSE,
                      nextState |-> [HunterShot(ex, ex.alivePlayers[i]) EXCEPT !.phase = "LAST_WILL"]]
                       : i \in DOMAIN ex.alivePlayers}
               ELSE Returns([ex EXCEPT !.phase = "LAST_WILL"])

handleLastWillPhase(s, ev) ==
  Returns([s EXCEPT !.executedPlayerId = NoPlayer, !.phase = "CHECK_END"])

handleCheckVictory(s, ev) ==
  IF check(s) # "undefined" THEN Returns([s EXCEPT !.phase = "GAME_OVER"])
  ELSE IF s.phase = "CHECK_END" THEN Returns([s EXCEPT !.phase = "NIGHT_WOLF_CHAT"])
  ELSE Returns([s EXCEPT !.phase = "DAY_FREE_TALK", !.dayNumber = s.dayNumber + 1])

handleWolfChatMessage(s, ev) ==
  IF MapGet(s.roleAssignments, ev.playerId, NoRole) # "WEREWOLF" THEN Throws(s)
  ELSE IF ~HasPlayer(s, ev.playerId) THEN Throws(s)
  ELSE Returns(s)

handleWolfChatPhase(s, ev) == Returns(s)

handleStartNightPhase(s, ev) == handleWolfChatPhase([s EXCEPT !.phase = "NIGHT_WOLF_CHAT"], ev)

handleStartNightActions(s, ev) == Returns([s EXCEPT !.phase = "NIGHT_ACTIONS"])

handleNightActionSubmission(s, ev) ==
  IF ~SeqHas(s.alivePlayers, ev.playerId) THEN Throws(s)
  ELSE IF ~MapHas(s.roleAssignments, ev.playerId) THEN Throws(s)
  ELSE Returns([s EXCEPT !.nightActions =
                  MapSet(s.nightActions, ev.playerId,
                         [actionType |-> ev.actionType, targetId |-> ev.targetId])])

handleWolfAttack(s, ev) ==
  IF MapGet(s.roleAssignments, ev.playerId, NoRole) \notin {"WEREWOLF", "WHITE_WOLF"}
  THEN Throws(s)
  ELSE Returns([s EXCEPT !.wolfAttacks = MapSet(s.wolfAttacks, ev.playerId, ev.targetId)])

RECURSIVE MarkAllDead(_, _)
MarkAllDead(s, ids) ==
  IF ids = <<>> THEN s ELSE MarkAllDead(MarkDead(s, Head(ids)), Tail(ids))

\* the deaths of a night are applied and recorded (lines 52-72)
applyNightDeaths(s, deaths) ==
  LET dead == MarkAllDead(s, deaths)
      fullDeaths == [i \in DOMAIN deaths |-> Death(deaths[i], s.dayNumber, "ATTACK")]
  IN [dead EXCEPT !.deaths = s.deaths \o fullDeaths]

\* a new NightResolver resolves the night: nothing is submitted to it
handleNightResolution(s, ev) ==
  LET result == resolve(NoActions, s)
  IN Returns([applyNightDeaths(s, result.deaths) EXCEPT !.nightActions = <<>>,
                                                        !.wolfAttacks = <<>>,
                                                        !.phase = "DAWN"])

----------------------------------------------------------------------------
(* HandlerRegistry *)

getHandler(phase, eventType) ==
  CASE phase = "LOBBY" /\ eventType = "START_GAME" -> "handleStartGame"
    [] phase = "INIT" /\ eventType = "ROLES_ASSIGNED" -> "handleRolesAssigned"
    [] phase = "ASSIGN_ROLES" /\ eventType = "START_DAY" -> "handleStartDay"
    [] phase = "DAY_FREE_TALK" /\ eventType = "START_VOTE" -> "handleStartVote"
    [] phase = "DAY_VOTE" /\ eventType = "VOTE" -> "handleVoteSubmission"
    [] phase = "DAY_VOTE" /\ eventType = "VOTE_COMPLETE" -> "handleVotePhase"
    [] phase = "DAY_REVOTE_TALK" /\ eventType = "START_VOTE" -> "handleStartRevote"
    [] phase = "DAY_REVOTE" /\ eventType = "VOTE" -> "handleVoteSubmission"
    [] phase = "DAY_REVOTE" /\ eventType = "VOTE_COMPLETE" -> "handleVotePhase"
    [] phase = "LAST_WILL" /\ eventType = "LAST_WILL_COMPLETE" -> "handleLastWillPhase"
    [] phase = "CHECK_END" /\ eventType = "CHECK_VICTORY" -> "handleCheckVictory"
    [] phase = "CHECK_END" /\ eventType = "START_NIGHT" -> "handleStartNightPhase"
    [] phase = "NIGHT_WOLF_CHAT" /\ eventType = "WOLF_CHAT_MESSAGE" -> "handleWolfChatMessage"
    [] phase = "NIGHT_WOLF_CHAT" /\ eventType = "ENTER_PHASE" -> "handleWolfChatPhase"
    [] phase = "NIGHT_WOLF_CHAT" /\ eventType = "START_NIGHT_ACTIONS" -> "handleStartNightActions"
    [] phase = "NIGHT_ACTIONS" /\ eventType = "NIGHT_ACTION" -> "handleNightActionSubmission"
    [] phase = "NIGHT_ACTIONS" /\ eventType = "WOLF_ATTACK" -> "handleWolfAttack"
    [] phase = "NIGHT_ACTIONS" /\ eventType = "RESOLVE_NIGHT" -> "handleNightResolution"
    [] phase = "DAWN" /\ eventType = "DAWN_COMPLETE" -> "handleCheckVictory"
    [] OTHER -> "undefined"

\* the call handler(state, event)
Invoke(handler, s, ev) ==
  CASE handler = "handleStartGame" -> handleStartGame(s, ev)
    [] handler = "handleRolesAssigned" -> handleRolesAssigned(s, ev)
    [] handler = "handleStartDay" -> handleStartDay(s, ev)
    [] handler = "handleStartVote" -> handleStartVote(s, ev)
    [] handler = "handleStartRevote" -> handleStartRevote(s, ev)
    [] handler = "handleVoteSubmission" -> handleVoteSubmission(s, ev)
    [] handler = "handleVotePhase" -> handleVotePhase(s, ev)
    [] handler = "handleLastWillPhase" -> handleLastWillPhase(s, ev)
    [] handler = "handleCheckVictory" -> handleCheckVictory(s, ev)
    [] handler = "handleStartNightPhase" -> handleStartNightPhase(s, ev)
    [] handler = "handleWolfChatMessage" -> handleWolfChatMessage(s, ev)
    [] handler = "handleWolfChatPhase" -> handleWolfChatPhase(s, ev)
    [] handler = "handleStartNightActions" -> handleStartNightActions(s, ev)
    [] handler = "handleNightActionSubmission" -> handleNightActionSubmission(s, ev)
    [] handler = "handleWolfAttack" -> handleWolfAttack(s, ev)
    [] handler = "handleNightResolution" -> handleNightResolution(s, ev)

\* the outcomes of a handler as outcomes [error, state] of the call that ran it
Run(handler, s, ev) ==
  {IF r.threw THEN [error |-> "HandlerError", state |-> s]
              ELSE [error |-> "none", state |-> r.nextState] : r \in Invoke(handler, s, ev)}

----------------------------------------------------------------------------
(* GameFSM *)

\* transition(state, event): an event without an entry of the table for the
\* current phase is rejected; otherwise the registered handler runs, and an
\* entry of the table without a handler moves to the phase the table names
transition(s, ev) ==
  IF ~isValidTransition(s.phase, ev.type)
  THEN {[error |-> "IllegalTransition", state |-> s]}
  ELSE IF getHandler(s.phase, ev.type) # "undefined"
       THEN Run(getHandler(s.phase, ev.type), s, ev)
       ELSE {[error |-> "none", state |-> [s EXCEPT !.phase = getNextPhase(s.phase, ev.type)]]}

\* a caller that looks the handler up in the registry and runs it
runRegistered(s, ev) ==
  IF getHandler(s.phase, ev.type) = "undefined"
  THEN {[error |-> "NoHandler", state |-> s]}
  ELSE Run(getHandler(s.phase, ev.type), s, ev)

Outcomes(s, ev) == IF dispatch = "table" THEN transition(s, ev) ELSE runRegistered(s, ev)

----------------------------------------------------------------------------
(* PhaseTimer.  Times are in seconds (the code counts milliseconds: 60 here  *)
(* is 60 * 1000 there).  host is the timer table of the runtime: one entry  *)
(* per setTimeout that was neither cleared nor run, with the time left      *)
(* until it is due.  A start is numbered 1, 2, ... in the order of the      *)
(* calls; the callback and the warning callback passed to start number g    *)
(* are written g.  log, started and                                         *)
(* cancelledAt record what happened: the callbacks that ran, the arguments  *)
(* of each start, and the length of log when clear() dropped the callback   *)
(* of a start (-1: not dropped).                                            *)

Starts == 1..MaxStarts

\* the delays (deadline - Date.now()) start is called with
Delays == {0, 10, 45, 60, 70}

NoStart == [delay |-> 0, warn |-> FALSE]

TimerIdle ==
  [timeoutId |-> 0, warningTimeouts |-> <<>>, callback |-> 0, warningCallback |-> 0,
   host |-> <<>>, nextId |-> 1, starts |-> 0,
   started |-> [g \in Starts |-> NoStart],
   cancelledAt |-> [g \in Starts |-> -1],
   log |-> <<>>,
   last |-> [op |-> "none", nested |-> 0]]

\* clearTimeout of the runtime: an id that is not in the table is ignored
clearTimeout(host, ids) == SelectSeq(host, LAMBDA e : e.id \notin ids)

\* PhaseTimer.clear (lines 114-128)
clear_KeepWarnings(t) ==
  [t EXCEPT !.host = clearTimeout(@, {t.timeoutId}),
            !.timeoutId = 0,
            !.warningTimeouts = <<>>,
            !.callback = 0,
            !.warningCallback = 0,
            !.cancelledAt = [g \in Starts |->
                               IF g = t.callback /\ @[g] = -1 THEN Len(t.log) ELSE @[g]]]
clear(t) ==
  [t EXCEPT !.host = clearTimeout(@, {t.timeoutId} \cup Range(t.warningTimeouts)),
            !.timeoutId = 0,
            !.warningTimeouts = <<>>,
            !.callback = 0,
            !.warningCallback = 0,
            !.cancelledAt = [g \in Starts |->
                               IF g = t.callback /\ @[g] = -1 THEN Len(t.log) ELSE @[g]]]

\* PhaseTimer.isActive (lines 133-135)
isActive(t) == t.timeoutId # 0

\* the thresholds of setupWarningTimers (lines 92-96)
warnings == <<60, 30, 10>>

\* one round of the loop of setupWarningTimers (lines 98-108)
setupWarning_AtZero(t, g, totalDelay, seconds) ==
  LET warningDelay == totalDelay - seconds
  IN IF warningDelay >= 0
     THEN [t EXCEPT !.host = Append(@, [id |-> t.nextId, due |-> warningDelay,
                                         kind |-> "warning", seconds |-> seconds, by |-> g]),
                    !.warningTimeouts = Append(@, t.nextId),
                    !.nextId = @ + 1]
     ELSE t
setupWarning(t, g, totalDelay, seconds) ==
  LET warningDelay == totalDelay - seconds
  IN IF warningDelay > 0
     THEN [t EXCEPT !.host = Append(@, [id |-> t.nextId, due |-> warningDelay,
                                         kind |-> "warning", seconds |-> seconds, by |-> g]),
                    !.warningTimeouts = Append(@, t.nextId),
                    !.nextId = @ + 1]
     ELSE t

\* PhaseTimer.setupWarningTimers (lines 91-109)
setupWarningTimers(t, g, totalDelay) ==
  setupWarning(setupWarning(setupWarning(t, g, totalDelay, warnings[1]),
                            g, totalDelay, warnings[2]),
               g, totalDelay, warnings[3])

RECURSIVE start(_, _, _, _)

\* the deadline callback passed to start number g runs: the caller is told,
\* and the callback then makes the starts of todo, the first itself and the
\* others from the callbacks that the starts before them invoke at once
runCallback(t, g, by, todo) ==
  LET told == [t EXCEPT !.log = Append(@, [kind |-> "deadline", gen |-> g,
                                           seconds |-> 0, by |-> by])]
  IN IF todo = <<>> THEN told
     ELSE start(told, Head(todo).delay, Head(todo).warn, Tail(todo))

\* PhaseTimer.start (lines 59-86); todo is what the callback does when start
\* invokes it at once (line 69)
start(t, delay, warn, todo) ==
  LET g == t.starts + 1
      cleared == [clear(t) EXCEPT !.starts = g,
                                  !.started[g] = [delay |-> delay, warn |-> warn]]
      armed == [cleared EXCEPT !.callback = g,
                               !.warningCallback = IF warn THEN g ELSE 0]
      warned == IF warn THEN setupWarningTimers(armed, g, delay) ELSE armed
  IN IF delay <= 0
     THEN runCallback(cleared, g, g, todo)
     ELSE [warned EXCEPT !.host = Append(@, [id |-> warned.nextId, due |-> delay,
                                             kind |-> "deadline", seconds |-> 0, by |-> g]),
                         !.timeoutId = warned.nextId,
                         !.nextId = @ + 1]

\* the runtime runs the function of the host entry e: the arrow function of
\* lines 82-85 for the deadline, of lines 102-104 for a warning
fire(t, e, todo) ==
  LET taken == [t EXCEPT !.host = SelectSeq(@, LAMBDA x : x.id # e.id)]
  IN IF e.kind = "warning"
     THEN IF taken.warningCallback # 0
          THEN [taken EXCEPT !.log = Append(@, [kind |-> "warning", gen |-> taken.warningCallback,
                                                seconds |-> e.seconds, by |-> e.by])]
          ELSE taken
     ELSE clear(IF taken.callback # 0
                THEN runCallback(taken, taken.callback, e.by, todo)
                ELSE taken)

\* the entry the runtime runs next: the earliest due, the oldest among equals
NextDue(host) ==
  CHOOSE i \in DOMAIN host :
    \A j \in DOMAIN host : host[i].due < host[j].due \/ (host[i].due = host[j].due /\ i <= j)

----------------------------------------------------------------------------
(* AsyncMutex.  A caller of runExclusive is "idle" (not in a call), "waiting" *)
(* (suspended at line 10, its resolve function in this.queue), "woken" (its   *)
(* promise resolved, its continuation not yet run) or "running" (past line    *)
(* 13, its fn not yet settled).  woken is the order in which the host will    *)
(* run the continuations; calls is the order in which the callers that have   *)
(* not started their fn called runExclusive.                                  *)

Callers == 1..MaxCallers

MutexIdle ==
  [locked |-> FALSE, queue |-> <<>>, pc |-> [c \in Callers |-> "idle"],
   woken |-> <<>>, calls |-> <<>>, settled |-> "none"]

\* the loop test of line 9 followed by line 10 (suspend) or line 13 (lock)
acquire_NoWait(m, c) ==
  [m EXCEPT !.locked = TRUE, !.pc[c] = "running", !.calls = SeqRemove(@, c)]
acquire(m, c) ==
  IF m.locked
  THEN [m EXCEPT !.queue = Append(@, c), !.pc[c] = "waiting"]
  ELSE [m EXCEPT !.locked = TRUE, !.pc[c] = "running", !.calls = SeqRemove(@, c)]

\* the finally block of lines 16-22, run when the fn of caller c has settled
release(m, c, outcome) ==
  LET unlocked == [m EXCEPT !.locked = FALSE, !.pc[c] = "idle", !.settled = outcome]
  IN IF Len(m.queue) = 0 THEN unlocked
     ELSE [unlocked EXCEPT !.queue = Tail(@),
                           !.pc[Head(m.queue)] = "woken",
                           !.woken = Append(@, Head(m.queue))]

----------------------------------------------------------------------------
(* The room: RoomManager.createRoom builds the state the machine starts from *)

NumPlayers == Len(BASE_ROLES_11)
\* the id of the one human user; AI players are 1..numAI
HumanId == NumPlayers + 1
AllIds == 1..HumanId
NumAIs == {NumPlayers - 1, NumPlayers}
ConfigPacks == {<<>>, <<"HUNTER">>}

Player(id) == [id |-> id, isAlive |-> TRUE]

createRoom(numAI, packs, seed) ==
  [phase |-> "LOBBY",
   dayNumber |-> 0,
   players |-> [i \in 1..numAI |-> Player(i)],
   alivePlayers |-> [i \in 1..numAI |-> i],
   roleAssignments |-> <<>>,
   votes |-> <<>>,
   nightActions |-> <<>>,
   wolfAttacks |-> <<>>,
   deaths |-> <<>>,
   tiedPlayers |-> <<>>,
   executedPlayerId |-> NoPlayer,
   winner |-> "undefined",
   seeds |-> [roles |-> seed + 1, packs |-> seed + 2, turns |-> seed + 3],
   config |-> [packs |-> packs, randomStart |-> FALSE]]

NoResult == [deaths |-> <<>>, hunterVictims |-> <<>>, divinationResults |-> <<>>,
             mediumResults |-> <<>>, protectionResults |-> <<>>, returned |-> FALSE]
NrIdle == [actions |-> NoActions, result |-> NoResult]
\* no call has returned yet
NoReturn == [of |-> "none", value |-> "none"]

InitRoom ==
  /\ \E numAI \in NumAIs, packs \in ConfigPacks, seed \in 0..MaxSeed :
       state = createRoom(numAI, packs, seed)
  /\ lastError = "none"
  /\ revotes = 0
  /\ nr = NrIdle
  /\ ret = NoReturn
  /\ mutex = MutexIdle
  /\ timer = TimerIdle

Init == InitRoom /\ dispatch = "table"

InitRegistry == InitRoom /\ dispatch = "registry"

----------------------------------------------------------------------------
(* Actions of the machine: one per event type *)

\* the history of entries into DAY_REVOTE, reset on entering DAY_FREE_TALK
RevotesAfter(old, new) ==
  IF new.phase = "DAY_FREE_TALK" /\ old.phase # "DAY_FREE_TALK" THEN 0
  ELSE IF new.phase = "DAY_REVOTE" /\ old.phase # "DAY_REVOTE" THEN revotes + 1
  ELSE revotes

Deliver(ev) ==
  /\ dispatch \in {"table", "registry"}
  /\ \E r \in Outcomes(state, ev) :
       /\ state' = r.state
       /\ lastError' = r.error
       /\ revotes' = RevotesAfter(state, r.state)
  /\ UNCHANGED <<nr, dispatch, ret, mutex, timer>>

Plain(type) == Event(type, NoPlayer, NoPlayer, "none")

\* the senders of night events: players 1..MaxActor and the first werewolf assigned
Wolves(s) == MapKeys(SelectSeq(s.roleAssignments, LAMBDA e : e.v \in {"WEREWOLF", "WHITE_WOLF"}))
NightSenders(s) == (1..MaxActor) \cup (IF Wolves(s) = <<>> THEN {} ELSE {Wolves(s)[1]})

StartGame == Deliver(Plain("START_GAME"))
RolesAssigned == Deliver(Plain("ROLES_ASSIGNED"))
StartDay == Deliver(Plain("START_DAY"))
StartVote == Deliver(Plain("START_VOTE"))
Vote == \E p \in 1..MaxVoter, t \in 1..MaxVoter : Deliver(Event("VOTE", p, t, "none"))
VoteComplete == Len(state.deaths) < MaxDeaths /\ Deliver(Plain("VOTE_COMPLETE"))
LastWillComplete == Deliver(Plain("LAST_WILL_COMPLETE"))
CheckVictory == Deliver(Plain("CHECK_VICTORY"))
StartNight == Deliver(Plain("START_NIGHT"))
WolfChatMessage ==
  \E p \in NightSenders(state) : Deliver(Event("WOLF_CHAT_MESSAGE", p, NoPlayer, "none"))
EnterPhase == Deliver(Plain("ENTER_PHASE"))
StartNightActions == Deliver(Plain("START_NIGHT_ACTIONS"))
NightAction ==
  \E p \in 1..MaxActor, a \in {"DIVINE", "PROTECT"}, t \in 1..MaxActor :
    Deliver(Event("NIGHT_ACTION", p, t, a))
WolfAttack ==
  \E p \in NightSenders(state), t \in 1..MaxActor : Deliver(Event("WOLF_ATTACK", p, t, "none"))
ResolveNight == Deliver(Plain("RESOLVE_NIGHT"))
NightComplete == Deliver(Plain("NIGHT_COMPLETE"))
StartDawn == Deliver(Plain("START_DAWN"))
DawnComplete == state.dayNumber < MaxDay /\ Deliver(Plain("DAWN_COMPLETE"))
GameEnd == Deliver(Plain("GAME_END"))

\* RoomManager.submitVote(roomId, playerId, targetId, reason): a player who
\* already has a vote recorded is ignored, otherwise a VOTE event is sent
roomSubmitVote(s, playerId, targetId) ==
  IF MapHas(s.votes, playerId)
  THEN {[error |-> "Ignored", state |-> s]}
  ELSE Outcomes(s, Event("VOTE", playerId, targetId, "none"))

SubmitVote ==
  /\ dispatch \in {"table", "registry"}
  /\ \E p \in 1..MaxVoter, t \in 1..MaxVoter :
       \E r \in roomSubmitVote(state, p, t) :
         /\ state' = r.state
         /\ lastError' = r.error
         /\ revotes' = RevotesAfter(state, r.state)
  /\ UNCHANGED <<nr, dispatch, ret, mutex, timer>>

\* a join that puts a known user back among the living
AddPlayer_Rejoin ==
  /\ dispatch \in {"table", "registry"}
  /\ IF HasPlayer(state, HumanId)
     THEN state' = [state EXCEPT !.alivePlayers =
                      IF SeqHas(@, HumanId) THEN @ ELSE Append(@, HumanId)]
     ELSE state' = [state EXCEPT !.players = <<Player(HumanId)>> \o state.players,
                                 !.alivePlayers = Append(state.alivePlayers, HumanId)]
  /\ UNCHANGED <<lastError, revotes, nr, dispatch, ret, mutex, timer>>

\* RoomManager.addPlayer: the human user joins the room
AddPlayer ==
  /\ dispatch \in {"table", "registry"}
  /\ IF HasPlayer(state, HumanId)
     THEN UNCHANGED state
     ELSE state' = [state EXCEPT !.players = <<Player(HumanId)>> \o state.players,
                                 !.alivePlayers = Append(state.alivePlayers, HumanId)]
  /\ UNCHANGED <<lastError, revotes, nr, dispatch, ret, mutex, timer>>

Next ==
  \/ StartGame
  \/ RolesAssigned
  \/ StartDay
  \/ StartVote
  \/ Vote
  \/ VoteComplete
  \/ LastWillComplete
  \/ CheckVictory
  \/ StartNight
  \/ WolfChatMessage
  \/ EnterPhase
  \/ StartNightActions
  \/ NightAction
  \/ WolfAttack
  \/ ResolveNight
  \/ NightComplete
  \/ StartDawn
  \/ DawnComplete
  \/ GameEnd
  \/ SubmitVote
  \/ AddPlayer

Spec == Init /\ [][Next]_vars

SpecRegistry == InitRegistry /\ [][Next]_vars

----------------------------------------------------------------------------
(* A game without player input: only the events that the phase timers and the *)
(* handlers' follow-up events produce are handed to the registered handlers,  *)
(* every vote is a synthesized fallback vote, and the days go on until        *)
(* somebody has won                                                           *)

InitTimers == InitRoom /\ dispatch = "registry"

TimerVoteComplete == Deliver(Plain("VOTE_COMPLETE"))
TimerDawnComplete == state.dayNumber < MaxTimerDay /\ Deliver(Plain("DAWN_COMPLETE"))

NextTimers ==
  \/ StartGame
  \/ AddPlayer
  \/ RolesAssigned
  \/ StartDay
  \/ StartVote
  \/ TimerVoteComplete
  \/ LastWillComplete
  \/ CheckVictory
  \/ StartNight
  \/ EnterPhase
  \/ StartNightActions
  \/ ResolveNight
  \/ TimerDawnComplete

SpecTimers == InitTimers /\ [][NextTimers]_vars

----------------------------------------------------------------------------
(* A NightResolver used on its own: the caller builds a state, submits the    *)
(* night's actions and calls resolve                                           *)

NightRoles == {"VILLAGER", "FOX", "BETRAYER", "HUNTER", "CAT"}

\* a game state in the night of day 1 with players 1..MaxNightPlayers; `dead`
\* names the player who has died before, NoPlayer for none
nightState(roles, dead, seed) ==
  LET ids == [i \in 1..MaxNightPlayers |-> i]
      base == createRoom(MaxNightPlayers, <<>>, seed)
  IN [base EXCEPT !.phase = "NIGHT_ACTIONS",
                  !.dayNumber = 1,
                  !.players = [i \in 1..MaxNightPlayers |-> [id |-> i, isAlive |-> (i # dead)]],
                  !.alivePlayers = SeqRemove(ids, dead),
                  !.roleAssignments = [i \in 1..MaxNightPlayers |-> [k |-> i, v |-> roles[i]]]]

InitNight ==
  /\ \E roles \in [1..MaxNightPlayers -> NightRoles],
        dead \in {NoPlayer, MaxNightPlayers},
        seed \in 0..MaxSeed :
       state = nightState(roles, dead, seed)
  /\ lastError = "none"
  /\ revotes = 0
  /\ nr = NrIdle
  /\ ret = NoReturn
  /\ mutex = MutexIdle
  /\ timer = TimerIdle
  /\ dispatch = "none"

NrCall(actions, result) ==
  /\ dispatch = "none"
  /\ nr' = [actions |-> actions, result |-> result]
  /\ UNCHANGED <<state, lastError, revotes, dispatch, ret, mutex, timer>>

NrSubmitAction ==
  \E p \in 1..MaxActor, a \in {"DIVINE", "PROTECT", "ATTACK"}, t \in 1..MaxNightPlayers :
    NrCall(submitAction(nr.actions, p, a, t), NoResult)

NrSetWolfAttack ==
  \E t \in 1..MaxNightPlayers : NrCall(setWolfAttack(nr.actions, t), NoResult)

NrResolve ==
  LET result == resolve(nr.actions, state)
  IN NrCall(nr.actions,
            [deaths |-> result.deaths, hunterVictims |-> result.hunterVictims,
             divinationResults |-> result.divinationResults,
             mediumResults |-> result.mediumResults,
             protectionResults |-> result.protectionResults, returned |-> TRUE])

NrClear == NrCall(NoActions, NoResult)

NextNight ==
  \/ NrSubmitAction
  \/ NrSetWolfAttack
  \/ NrResolve
  \/ NrClear

SpecNight == InitNight /\ [][NextNight]_vars

----------------------------------------------------------------------------
(* A VictoryChecker used on its own: the caller builds a state and calls check *)

VictoryRoles == {"VILLAGER", "SEER", "WEREWOLF", "MADMAN", "FOX", "BETRAYER"}

\* a game state at CHECK_END of day 1 with players 1..MaxVictoryPlayers, of
\* which the players in `alive` are living
victoryState(roles, alive) ==
  LET ids == [i \in 1..MaxVictoryPlayers |-> i]
      base == createRoom(MaxVictoryPlayers, <<>>, 0)
  IN [base EXCEPT !.phase = "CHECK_END",
                  !.dayNumber = 1,
                  !.players = [i \in 1..MaxVictoryPlayers |-> [id |-> i, isAlive |-> (i \in alive)]],
                  !.alivePlayers = SelectSeq(ids, LAMBDA i : i \in alive),
                  !.roleAssignments = [i \in 1..MaxVictoryPlayers |-> [k |-> i, v |-> roles[i]]]]

InitVictory ==
  /\ \E roles \in [1..MaxVictoryPlayers -> VictoryRoles], alive \in SUBSET (1..MaxVictoryPlayers) :
       state = victoryState(roles, alive)
  /\ lastError = "none"
  /\ revotes = 0
  /\ nr = NrIdle
  /\ ret = NoReturn
  /\ mutex = MutexIdle
  /\ timer = TimerIdle
  /\ dispatch = "none"

VcCheck ==
  /\ dispatch = "none"
  /\ ret' = [of |-> "check", value |-> check(state)]
  /\ UNCHANGED <<state, lastError, revotes, nr, dispatch, mutex, timer>>

NextVictory == VcCheck

SpecVictory == InitVictory /\ [][NextVictory]_vars

----------------------------------------------------------------------------
(* A RoleBuilder used on its own: the caller holds a pack list in config.packs *)
(* and calls buildRoles, as handleRolesAssigned and createRoom do              *)

PackLists == UNION {[1..n -> Packs] : n \in 0..MaxPacks}

InitRoles ==
  /\ \E packs \in PackLists : state = createRoom(NumPlayers, packs, 0)
  /\ lastError = "none"
  /\ revotes = 0
  /\ nr = NrIdle
  /\ ret = NoReturn
  /\ mutex = MutexIdle
  /\ timer = TimerIdle
  /\ dispatch = "none"

\* the value is the role list, <<>> when buildRoles throws
RbBuildRoles ==
  /\ dispatch = "none"
  /\ ret' = [of |-> "buildRoles", value |-> buildRoles(state.config.packs)]
  /\ UNCHANGED <<state, lastError, revotes, nr, dispatch, mutex, timer>>

\* the oracle methods, called with any role
RbGetDivinationResult ==
  /\ dispatch = "none"
  /\ \E role \in Roles :
       ret' = [of |-> "getDivinationResult", role |-> role, value |-> getDivinationResult(role)]
  /\ UNCHANGED <<state, lastError, revotes, nr, dispatch, mutex, timer>>

RbGetMediumResult ==
  /\ dispatch = "none"
  /\ \E role \in Roles :
       ret' = [of |-> "getMediumResult", role |-> role, value |-> getMediumResult(role)]
  /\ UNCHANGED <<state, lastError, revotes, nr, dispatch, mutex, timer>>

NextRoles == RbBuildRoles \/ RbGetDivinationResult \/ RbGetMediumResult

SpecRoles == InitRoles /\ [][NextRoles]_vars

----------------------------------------------------------------------------
(* A RoleBuilder asked for a random pack selection: the caller holds the   *)
(* pack-selection seed in seeds.packs and calls buildRandomRoles, as        *)
(* handleRolesAssigned does for a room created with randomStart             *)

InitRandomRoles ==
  /\ \E seed \in 0..MaxPackSeed :
       state = [createRoom(NumPlayers, <<>>, seed) EXCEPT !.config.randomStart = TRUE]
  /\ lastError = "none"
  /\ revotes = 0
  /\ nr = NrIdle
  /\ ret = NoReturn
  /\ mutex = MutexIdle
  /\ timer = TimerIdle
  /\ dispatch = "none"

RbBuildRandomRoles ==
  /\ dispatch = "none"
  /\ state.config.randomStart
  /\ ret' = [of |-> "buildRandomRoles", value |-> buildRandomRoles(state.seeds.packs)]
  /\ UNCHANGED <<state, lastError, revotes, nr, dispatch, mutex, timer>>

NextRandomRoles == RbBuildRandomRoles

SpecRandomRoles == InitRandomRoles /\ [][NextRandomRoles]_vars

----------------------------------------------------------------------------
(* A VoteCollector used on its own: the caller has submitted the votes held *)
(* in state.votes, as handleVotePhase does, and calls finalizeVotes(state); *)
(* the ActionFallbackEngine is asked for the vote of a player               *)

\* the ordered maps voter -> target: the votes in the order of submission
VoteMaps(voters, targets) ==
  {m \in UNION {[1..n -> [k : voters, v : targets]] : n \in 0..Cardinality(voters)} :
     \A i, j \in DOMAIN m : i # j => m[i].k # m[j].k}

\* a game state in the vote of day 1 with players 1..MaxVotePlayers;
\* beliefs[i] is lastBelief.suspectId of player i, NoPlayer for no lastBelief
voteState(alive, votes, beliefs, seed) ==
  [createRoom(MaxVotePlayers, <<>>, seed) EXCEPT
     !.phase = "DAY_VOTE",
     !.dayNumber = 1,
     !.players = [i \in 1..MaxVotePlayers |->
                    [id |-> i, isAlive |-> i \in alive, lastBelief |-> beliefs[i]]],
     !.alivePlayers = SelectSeq([i \in 1..MaxVotePlayers |-> i], LAMBDA i : i \in alive),
     !.votes = votes]

InitVotes ==
  /\ \E alive \in (SUBSET (1..MaxVotePlayers)) \ {{}}, seed \in 0..MaxVoteSeed,
        holder \in 0..MaxVotePlayers, suspectId \in 1..MaxVotePlayers :
       \E votes \in VoteMaps(alive, alive) :
         state = voteState(alive, votes,
                           [i \in 1..MaxVotePlayers |->
                              IF i = holder THEN suspectId ELSE NoPlayer], seed)
  /\ lastError = "none"
  /\ revotes = 0
  /\ nr = NrIdle
  /\ ret = NoReturn
  /\ mutex = MutexIdle
  /\ timer = TimerIdle
  /\ dispatch = "none"

VcFinalizeVotes ==
  /\ dispatch = "none"
  /\ ret' = [of |-> "finalizeVotes", value |-> finalizeVotes(state, state.votes)]
  /\ UNCHANGED <<state, lastError, revotes, nr, dispatch, mutex, timer>>

\* the vote generated for a living player who has not voted
FbGenerateFallbackVote ==
  /\ dispatch = "none"
  /\ \E i \in DOMAIN state.alivePlayers :
       /\ ~MapHas(state.votes, state.alivePlayers[i])
       /\ ret' = [of |-> "generateFallbackVote", playerId |-> state.alivePlayers[i],
                  value |-> generateFallbackVote(state, state.alivePlayers[i])]
  /\ UNCHANGED <<state, lastError, revotes, nr, dispatch, mutex, timer>>

NextVotes == VcFinalizeVotes \/ FbGenerateFallbackVote

SpecVotes == InitVotes /\ [][NextVotes]_vars

----------------------------------------------------------------------------
(* An AsyncMutex shared by callers that call runExclusive at any moment *)

InitMutex ==
  /\ state = createRoom(NumPlayers, <<>>, 0)
  /\ lastError = "none"
  /\ revotes = 0
  /\ nr = NrIdle
  /\ ret = NoReturn
  /\ mutex = MutexIdle
  /\ timer = TimerIdle
  /\ dispatch = "none"

\* a caller enters runExclusive and runs up to its first await
MxCall ==
  /\ \E c \in Callers :
       /\ mutex.pc[c] = "idle"
       /\ mutex' = acquire([mutex EXCEPT !.calls = Append(@, c)], c)
  /\ UNCHANGED <<state, lastError, revotes, nr, dispatch, ret, timer>>

\* the host runs the continuation of the waiter that was woken first
MxResume ==
  /\ Len(mutex.woken) > 0
  /\ mutex' = acquire([mutex EXCEPT !.woken = Tail(@)], Head(mutex.woken))
  /\ UNCHANGED <<state, lastError, revotes, nr, dispatch, ret, timer>>

\* the fn of the running caller resolves or throws and the finally block runs
MxSettle ==
  /\ \E c \in Callers, outcome \in {"resolved", "rejected"} :
       /\ mutex.pc[c] = "running"
       /\ mutex' = release(mutex, c, outcome)
  /\ UNCHANGED <<state, lastError, revotes, nr, dispatch, ret, timer>>

NextMutex == MxCall \/ MxResume \/ MxSettle

SpecMutex == InitMutex /\ [][NextMutex]_vars

\* the host runs every pending continuation and every fn that runs settles
SpecMutexFair == SpecMutex /\ WF_vars(MxResume) /\ WF_vars(MxSettle)

----------------------------------------------------------------------------
(* A PhaseTimer that is started and cleared at any moment while time passes *)

InitPhaseTimer ==
  /\ state = createRoom(NumPlayers, <<>>, 0)
  /\ lastError = "none"
  /\ revotes = 0
  /\ nr = NrIdle
  /\ ret = NoReturn
  /\ mutex = MutexIdle
  /\ timer = TimerIdle
  /\ dispatch = "none"

\* what a deadline callback may do: nothing, or start the next timer
Todos == {<<>>} \cup {<<[delay |-> d, warn |-> w]>> : d \in Delays, w \in BOOLEAN}

\* the delay of the start a callback makes itself (0: it makes none)
NestedDelay(todo) == IF todo = <<>> THEN 0 ELSE Head(todo).delay

PtStart ==
  /\ \E delay \in Delays, warn \in BOOLEAN, todo \in Todos :
       /\ delay > 0 => todo = <<>>
       /\ timer.starts + 1 + Len(todo) <= MaxStarts
       /\ timer' = [start(timer, delay, warn, todo) EXCEPT
                      !.last = [op |-> "start", nested |-> NestedDelay(todo)]]
  /\ UNCHANGED <<state, lastError, revotes, nr, dispatch, ret, mutex>>

PtClear ==
  /\ timer' = [clear(timer) EXCEPT !.last = [op |-> "clear", nested |-> 0]]
  /\ UNCHANGED <<state, lastError, revotes, nr, dispatch, ret, mutex>>

\* a timeout that is due runs
PtFire ==
  /\ Len(timer.host) > 0
  /\ LET e == timer.host[NextDue(timer.host)]
     IN /\ e.due <= 0
        /\ \E todo \in Todos :
             /\ e.kind = "warning" => todo = <<>>
             /\ timer.starts + Len(todo) <= MaxStarts
             /\ timer' = [fire(timer, e, todo) EXCEPT
                            !.last = [op |-> e.kind, nested |-> NestedDelay(todo)]]
  /\ UNCHANGED <<state, lastError, revotes, nr, dispatch, ret, mutex>>

\* time passes while no timeout is due
PtTick ==
  /\ Len(timer.host) > 0
  /\ \A i \in DOMAIN timer.host : timer.host[i].due > 0
  /\ timer' = [timer EXCEPT !.host = [i \in DOMAIN @ |-> [@[i] EXCEPT !.due = @ - TickStep]],
                            !.last = [op |-> "tick", nested |-> 0]]
  /\ UNCHANGED <<state, lastError, revotes, nr, dispatch, ret, mutex>>

NextPhaseTimer == PtStart \/ PtClear \/ PtFire \/ PtTick

SpecPhaseTimer == InitPhaseTimer /\ [][NextPhaseTimer]_vars

----------------------------------------------------------------------------
(* Properties *)

\* events a caller may hand to the machine in any phase
SomeEvents ==
  {Plain(type) : type \in EventTypes}
    \cup {Event("VOTE", p, t, "none") : p \in 1..MaxVoter, t \in 1..MaxVoter}
    \cup {Event("NIGHT_ACTION", p, t, "PROTECT") : p \in 1..MaxActor, t \in 1..MaxActor}
    \cup {Event("WOLF_ATTACK", p, t, "none") : p \in NightSenders(state), t \in 1..MaxActor}

\* the fields of the game state a rejected event must leave alone
Observed(s) ==
  <<s.phase, s.dayNumber, s.alivePlayers, s.roleAssignments, s.votes, s.nightActions,
    s.wolfAttacks, s.deaths>>

CompleteVotes(s) == fillMissingVotes(s, s.votes)
\* the targets holding the maximum vote count
TopTargets(s) ==
  LET complete == CompleteVotes(s)
      tally == [t \in AllIds |-> Cardinality({i \in DOMAIN complete : complete[i].v = t})]
  IN {t \in AllIds : tally[t] > 0 /\ \A u \in AllIds : tally[u] <= tally[t]}

\* C3: on VOTE_COMPLETE in DAY_VOTE, if two or more targets share the maximum
\* vote count the phase becomes DAY_REVOTE_TALK, tiedPlayers is exactly the
\* set of targets at the maximum and alivePlayers and deaths are unchanged;
\* otherwise the phase becomes LAST_WILL and the unique maximum target is
\* removed from alivePlayers and recorded as EXECUTED.
C3_VoteCompleteInDayVote ==
  state.phase = "DAY_VOTE" =>
    LET top == TopTargets(state)
    IN \A r \in transition(state, Plain("VOTE_COMPLETE")) :
      /\ r.error = "none"
      /\ IF Cardinality(top) >= 2
         THEN /\ r.state.phase = "DAY_REVOTE_TALK"
              /\ Range(r.state.tiedPlayers) = top
              /\ Len(r.state.tiedPlayers) = Cardinality(top)
              /\ r.state.alivePlayers = state.alivePlayers
              /\ r.state.deaths = state.deaths
         ELSE /\ r.state.phase = "LAST_WILL"
              /\ \A t \in top :
                   /\ ~SeqHas(r.state.alivePlayers, t)
                   /\ Len(r.state.deaths) > Len(state.deaths)
                   /\ r.state.deaths[Len(state.deaths) + 1] =
                        Death(t, state.dayNumber, "EXECUTED")

\* the first vote of the day was tied on players that received submitted votes
C3_Witness ==
  /\ state.phase = "DAY_REVOTE_TALK"
  /\ Len(state.tiedPlayers) >= 2
  /\ state.votes # <<>>
  /\ state.deaths = <<>>

\* C4: on VOTE_COMPLETE in DAY_REVOTE with two or more targets still tied at
\* the maximum, votes is cleared, tiedPlayers is cleared, the phase becomes
\* CHECK_END, and alivePlayers and the deaths log are as before the event.
C4_RevoteTie ==
  (state.phase = "DAY_REVOTE" /\ Cardinality(TopTargets(state)) >= 2) =>
    \A r \in transition(state, Plain("VOTE_COMPLETE")) :
      /\ r.error = "none"
      /\ r.state.votes = <<>>
      /\ r.state.tiedPlayers = <<>>
      /\ r.state.phase = "CHECK_END"
      /\ r.state.alivePlayers = state.alivePlayers
      /\ r.state.deaths = state.deaths

\* the revote ended tied: the day reaches CHECK_END with everybody alive
C4_Witness ==
  /\ state.phase = "CHECK_END"
  /\ lastError = "none"
  /\ revotes = 1
  /\ state.votes = <<>>
  /\ Len(state.alivePlayers) = NumPlayers

Enters(phase) == state.phase # phase /\ state'.phase = phase

\* C5: whenever the game enters DAY_VOTE or DAY_REVOTE the votes map is
\* empty, and whenever it enters NIGHT_ACTIONS the nightActions and
\* wolfAttacks maps are empty.
C5_ScratchMapsCleared ==
  [][/\ (Enters("DAY_VOTE") \/ Enters("DAY_REVOTE")) => state'.votes = <<>>
     /\ Enters("NIGHT_ACTIONS") => (state'.nightActions = <<>> /\ state'.wolfAttacks = <<>>)]_vars

\* C6: between two consecutive entries into DAY_FREE_TALK the phase
\* DAY_REVOTE is entered at most once: after it has been entered, no step
\* enters DAY_REVOTE_TALK or DAY_REVOTE before the next day begins.
C6_OneRevotePerDay ==
  [][revotes >= 1 => ~Enters("DAY_REVOTE_TALK") /\ ~Enters("DAY_REVOTE")]_vars

\* on the second day a revote has been entered and ended tied
C6_Witness ==
  /\ revotes = 1
  /\ state.dayNumber = 2
  /\ state.phase = "CHECK_END"

\* C7: in NIGHT_ACTIONS a RESOLVE_NIGHT event is accepted and the phase
\* becomes DAWN; a NIGHT_ACTION of an alive player and a WOLF_ATTACK of a
\* werewolf are accepted and leave the phase at NIGHT_ACTIONS.
C7_ResolveNightLegal ==
  state.phase = "NIGHT_ACTIONS" =>
    /\ \A r \in transition(state, Plain("RESOLVE_NIGHT")) :
         r.error = "none" /\ r.state.phase = "DAWN"
    /\ \A p \in 1..MaxActor, t \in 1..MaxActor :
         SeqHas(state.alivePlayers, p) =>
           \A r \in transition(state, Event("NIGHT_ACTION", p, t, "PROTECT")) :
             r.error = "none" /\ r.state.phase = "NIGHT_ACTIONS"
    /\ \A t \in 1..MaxActor :
         Wolves(state) # <<>> =>
           \A r \in transition(state, Event("WOLF_ATTACK", Wolves(state)[1], t, "none")) :
             r.error = "none" /\ r.state.phase = "NIGHT_ACTIONS"

\* the targets of the wolf attacks and of the protections recorded this night
AttackTargets(s) == Range(MapValues(s.wolfAttacks))
ProtectedTargets(s) ==
  {s.nightActions[i].v.targetId :
     i \in {j \in DOMAIN s.nightActions : s.nightActions[j].v.actionType = "PROTECT"}}

\* C8: when the night is resolved by RESOLVE_NIGHT, the single attack target
\* recorded by the wolf-attack submissions of that night, if alive and not
\* the target of a recorded protection, is removed from alivePlayers and
\* appended to deaths.
C8_AttackTargetDies ==
  (state.phase = "NIGHT_ACTIONS" /\ Cardinality(AttackTargets(state)) = 1) =>
    \A t \in AttackTargets(state) :
      (SeqHas(state.alivePlayers, t) /\ t \notin ProtectedTargets(state)) =>
        \A r \in Outcomes(state, Plain("RESOLVE_NIGHT")) :
          /\ ~SeqHas(r.state.alivePlayers, t)
          /\ \E i \in DOMAIN r.state.deaths :
               i > Len(state.deaths) /\ r.state.deaths[i].playerId = t

\* C9: when resolve has returned for actions in which a PROTECT action
\* targets the attack target X, the deaths list is empty (X is not in it and
\* nothing was triggered by X), and every protection result has success = TRUE
\* exactly when the guardian's target is the attack target; with an attack
\* submitted every guardian has a protection result.
C9_ProtectedTargetSurvives ==
  nr.result.returned =>
    LET X == nr.actions.attack
        protections == nr.actions.protections
    IN /\ (X # NoPlayer /\ \E i \in DOMAIN protections : protections[i].v = X) =>
            nr.result.deaths = <<>>
       /\ X # NoPlayer =>
            /\ MapKeys(nr.result.protectionResults) = MapKeys(protections)
            /\ \A i \in DOMAIN nr.result.protectionResults :
                 nr.result.protectionResults[i].v.success = (protections[i].v = X)

\* an alive CAT was attacked while protected and the resolver returned
C9_Witness ==
  /\ nr.result.returned
  /\ nr.actions.attack # NoPlayer
  /\ SeqHas(state.alivePlayers, nr.actions.attack)
  /\ MapGet(state.roleAssignments, nr.actions.attack, NoRole) = "CAT"
  /\ \E i \in DOMAIN nr.actions.protections : nr.actions.protections[i].v = nr.actions.attack
  /\ \E i \in DOMAIN nr.result.protectionResults : nr.result.protectionResults[i].v.success

RoleIn(s, id) == MapGet(s.roleAssignments, id, NoRole)

\* C10: when resolve has returned, if a FOX is among the deaths then every
\* living BETRAYER is among the deaths, and if no FOX is among the deaths
\* then no BETRAYER was added to them by the cascade.
C10_BetrayerCascade ==
  nr.result.returned =>
    LET deaths == nr.result.deaths
        foxDied == \E i \in DOMAIN deaths : RoleIn(state, deaths[i]) = "FOX"
        X == nr.actions.attack
        hit == /\ X # NoPlayer
               /\ SeqHas(state.alivePlayers, X)
               /\ \A i \in DOMAIN nr.actions.protections : nr.actions.protections[i].v # X
        attackCount == IF ~hit THEN 0
                       ELSE IF RoleIn(state, X) = "CAT" /\ Len(state.alivePlayers) > 1 THEN 2
                       ELSE 1
    IN /\ foxDied =>
            \A b \in Range(state.alivePlayers) :
              RoleIn(state, b) = "BETRAYER" => SeqHas(deaths, b)
       /\ ~foxDied => Len(deaths) = attackCount + Len(nr.result.hunterVictims)

Min(a, b) == IF a <= b THEN a ELSE b

\* C11: when resolve has returned, every HUNTER among the deaths of the
\* attack, retaliation and cascade steps has produced exactly one chain-kill
\* victim as long as a living player not yet dead this night remained; every
\* victim was alive and is none of the players dead before it (so not the
\* hunter), the victims are the tail of the deaths list, and the deaths list
\* names no player twice.
C11_NightChainKill ==
  nr.result.returned =>
    LET deaths == nr.result.deaths
        victims == nr.result.hunterVictims
        prior == SubSeq(deaths, 1, Len(deaths) - Len(victims))
        hunters == {i \in DOMAIN prior : RoleIn(state, prior[i]) = "HUNTER"}
        candidates == Len(state.alivePlayers) - Len(prior)
    IN /\ Len(victims) = Min(Cardinality(hunters), candidates)
       /\ SubSeq(deaths, Len(prior) + 1, Len(deaths)) = victims
       /\ \A i \in DOMAIN victims :
            SeqHas(state.alivePlayers, victims[i]) /\ ~SeqHas(prior, victims[i])
       /\ \A i, j \in DOMAIN deaths : i # j => deaths[i] # deaths[j]

\* an attacked CAT took a HUNTER with it and the hunter shot the third player
C11_Witness ==
  /\ nr.result.returned
  /\ Len(nr.result.deaths) = 3
  /\ Len(nr.result.hunterVictims) = 1
  /\ RoleIn(state, nr.result.deaths[1]) = "CAT"
  /\ RoleIn(state, nr.result.deaths[2]) = "HUNTER"

\* C12: on VOTE_COMPLETE, when the unique target at the maximum holds the
\* HUNTER role and another player is alive, exactly two deaths are appended:
\* the execution of the hunter and one chain kill of deathType HUNTER whose
\* victim was alive and is not the hunter; both leave alivePlayers and nobody
\* else does.
C12_ExecutedHunterShoots ==
  state.phase \in {"DAY_VOTE", "DAY_REVOTE"} =>
    LET top == TopTargets(state)
        n == Len(state.deaths)
    IN \A h \in top :
         (Cardinality(top) = 1 /\ RoleIn(state, h) = "HUNTER" /\ Len(state.alivePlayers) > 1) =>
           \A r \in transition(state, Plain("VOTE_COMPLETE")) :
             /\ r.error = "none"
             /\ Len(r.state.deaths) = n + 2
             /\ SubSeq(r.state.deaths, 1, n) = state.deaths
             /\ r.state.deaths[n + 1] = Death(h, state.dayNumber, "EXECUTED")
             /\ LET victim == r.state.deaths[n + 2].playerId
                IN /\ r.state.deaths[n + 2] = Death(victim, state.dayNumber, "HUNTER")
                   /\ victim # h
                   /\ SeqHas(state.alivePlayers, victim)
                   /\ r.state.alivePlayers =
                        SeqRemove(SeqRemove(state.alivePlayers, h), victim)

\* a HUNTER has been executed and its shot is recorded after the execution
C12_Witness ==
  /\ state.phase = "LAST_WILL"
  /\ Len(state.deaths) = 2
  /\ state.deaths[1].deathType = "EXECUTED"
  /\ RoleIn(state, state.deaths[1].playerId) = "HUNTER"
  /\ state.deaths[2].deathType = "HUNTER"
  /\ Len(state.alivePlayers) = Len(state.players) - 2

NoMediumResult == [targetPlayerId |-> NoPlayer, result |-> "none"]

\* C13: in NIGHT_ACTIONS of a day on which a player was executed, the
\* resolution of the night gives every living MEDIUM a medium result whose
\* target is the executed player and whose value is getMediumResult of that
\* player's role.
C13_MediumLearnsExecution ==
  state.phase = "NIGHT_ACTIONS" =>
    \A i \in DOMAIN state.deaths :
      (state.deaths[i].deathType = "EXECUTED" /\ state.deaths[i].dayNumber = state.dayNumber) =>
        \A m \in Range(state.alivePlayers) :
          RoleIn(state, m) = "MEDIUM" =>
            LET mediumResults == resolve(NoActions, state).mediumResults
            IN MapGet(mediumResults, m, NoMediumResult) =
                 [targetPlayerId |-> state.deaths[i].playerId,
                  result |-> getMediumResult(RoleIn(state, state.deaths[i].playerId))]

\* the living players whose role belongs to the team
LivingOf(s, team) == {id \in Range(s.alivePlayers) : ROLE_TEAMS(RoleIn(s, id)) = team}

\* C14: the value VictoryChecker.check returned is: when the living
\* WEREWOLF-team members are at least as many as the living VILLAGE-team and
\* FOX-team members together, FOX if a FOX-team member lives and WEREWOLF
\* otherwise; else, when no WEREWOLF-team member lives, FOX if a FOX-team
\* member lives and VILLAGE otherwise; in every other case no winner.
C14_VictoryRule ==
  ret.of = "check" =>
    LET w == Cardinality(LivingOf(state, "WEREWOLF"))
        v == Cardinality(LivingOf(state, "VILLAGE"))
        f == Cardinality(LivingOf(state, "FOX"))
    IN /\ (w >= v + f /\ f > 0) => ret.value = "FOX"
       /\ (w >= v + f /\ f = 0) => ret.value = "WEREWOLF"
       /\ (w < v + f /\ w = 0 /\ f > 0) => ret.value = "FOX"
       /\ (w < v + f /\ w = 0 /\ f = 0) => ret.value = "VILLAGE"
       /\ (w < v + f /\ w > 0) => ret.value = "undefined"

\* the werewolves are as many as the others and a living FOX-team member takes the win
C14_Witness ==
  /\ ret.of = "check"
  /\ ret.value = "FOX"
  /\ Cardinality(LivingOf(state, "WEREWOLF")) = 2
  /\ Cardinality(LivingOf(state, "VILLAGE")) = 1
  /\ Cardinality(LivingOf(state, "FOX")) = 1

\* C15: a step that leaves CHECK_END in a state where VictoryChecker.check
\* reports a winner leads to GAME_OVER: not to NIGHT_WOLF_CHAT and not to
\* any other phase.
C15_VictoryBeforeNight ==
  [][(state.phase = "CHECK_END" /\ check(state) # "undefined" /\ state'.phase # "CHECK_END")
       => state'.phase = "GAME_OVER"]_vars

\* C16: a step that leaves DAWN enters CHECK_END; a step that enters
\* DAY_FREE_TALK sets dayNumber to 1 when it is the first day (from
\* ASSIGN_ROLES) and increases it by exactly 1 otherwise; no other step
\* changes dayNumber.
C16_DawnThroughCheckEnd ==
  [][/\ (state.phase = "DAWN" /\ state'.phase # "DAWN") => state'.phase = "CHECK_END"
     /\ Enters("DAY_FREE_TALK") =>
          state'.dayNumber = (IF state.phase = "ASSIGN_ROLES" THEN 1 ELSE state.dayNumber + 1)
     /\ ~Enters("DAY_FREE_TALK") => state'.dayNumber = state.dayNumber]_vars

\* C17: in every reachable state each id of alivePlayers is the id of a
\* player, and no step puts back into alivePlayers the id of a player that is
\* not in it (players join alive, so a player outside alivePlayers has been
\* removed from it).
C17_AliveSubsetNoReturn ==
  /\ [](\A id \in Range(state.alivePlayers) : HasPlayer(state, id))
  /\ [][\A id \in AllIds :
          (HasPlayer(state, id) /\ ~SeqHas(state.alivePlayers, id))
            => ~SeqHas(state'.alivePlayers, id)]_vars

\* the human user joined, was executed, and a later event has been handled
C17_Witness ==
  /\ HasPlayer(state, HumanId)
  /\ ~SeqHas(state.alivePlayers, HumanId)
  /\ \E i \in DOMAIN state.deaths : state.deaths[i].playerId = HumanId
  /\ state.phase = "CHECK_END"

Occurrences(seq, x) == Cardinality({i \in DOMAIN seq : seq[i] = x})

\* C18: once ROLES_ASSIGNED has been handled (the phase is past INIT),
\* roleAssignments has exactly one entry for each player of players and none
\* for anyone else, the assigned roles are, as a multiset, the roles
\* buildRoles gives for config.packs, and no step changes roleAssignments.
C18_RolesMatchPlayers ==
  /\ [](state.phase \notin {"LOBBY", "INIT"} =>
          /\ Len(state.roleAssignments) = Len(state.players)
          /\ \A i \in DOMAIN state.players : MapHas(state.roleAssignments, state.players[i].id)
          /\ \A i \in DOMAIN state.roleAssignments : HasPlayer(state, state.roleAssignments[i].k)
          /\ \A r \in Range(BASE_ROLES_11) \cup {"HUNTER"} :
               Occurrences(MapValues(state.roleAssignments), r) =
                 Occurrences(buildRoles(state.config.packs), r))
  /\ [][state.phase \notin {"LOBBY", "INIT"} => state'.roleAssignments = state.roleAssignments]_vars

\* C19: in every reachable state every event has exactly one outcome: the
\* state after the event is a function of the state before it (seeds
\* included) and of the event, so two copies of a game that receive the same
\* events stay equal.
C19_Deterministic ==
  \A ev \in SomeEvents : Cardinality(Outcomes(state, ev)) = 1

\* C20: buildRoles called with a list of packs returns exactly 11 roles when
\* the list names no pack twice, at most one THIRD_PARTY_EXCLUSIVE pack (FOX)
\* and at most one JUDGMENT_EXCLUSIVE pack (FANATIC, WHITE_WOLF), FREEMASON
\* together with FANATIC included; in every other case it throws and returns
\* no roles.
C20_BuildRolesValidity ==
  ret.of = "buildRoles" =>
    LET packs == state.config.packs
        noDuplicate == \A i, j \in DOMAIN packs : i # j => packs[i] # packs[j]
        thirdParty == Cardinality({i \in DOMAIN packs : packs[i] = "FOX"})
        judgment == Cardinality({i \in DOMAIN packs : packs[i] \in {"FANATIC", "WHITE_WOLF"}})
    IN IF noDuplicate /\ thirdParty <= 1 /\ judgment <= 1
       THEN Len(ret.value) = 11
       ELSE ret.value = <<>>

\* four packs, FREEMASON and FANATIC among them, were accepted
C20_Witness ==
  /\ ret.of = "buildRoles"
  /\ Len(state.config.packs) = 4
  /\ {"FREEMASON", "FANATIC"} \subseteq Range(state.config.packs)
  /\ Len(ret.value) = 11
  /\ Occurrences(ret.value, "VILLAGER") = 1

AllRoles == Range(BASE_ROLES_11) \cup {"FOX", "FREEMASON", "HUNTER", "FANATIC", "WHITE_WOLF"}

\* how many times the packs of the list declare role r in the given field
Declared(packs, field, r) ==
  Cardinality({ij \in (DOMAIN packs) \X (1..2) :
                 /\ ij[2] \in DOMAIN ALL_PACK_CONFIGS[packs[ij[1]]][field]
                 /\ ALL_PACK_CONFIGS[packs[ij[1]]][field][ij[2]] = r})

ValidPackList(packs) ==
  /\ \A i, j \in DOMAIN packs : i # j => packs[i] # packs[j]
  /\ Cardinality({i \in DOMAIN packs : packs[i] = "FOX"}) <= 1
  /\ Cardinality({i \in DOMAIN packs : packs[i] \in {"FANATIC", "WHITE_WOLF"}}) <= 1

\* C21: applying the packs of a list in order to the base roles, each single
\* application to a current list that holds every role the pack replaces
\* (as often as the pack replaces it) gives 11 roles whose multiset is the
\* current one minus the replaced roles plus the new roles, and an
\* application to a current list that lacks a role to replace is an error;
\* for a valid pack list buildRoles returns the base multiset minus all
\* replaced roles plus all new roles.
C21_PackSubstitution ==
  LET packs == state.config.packs
  IN /\ \A n \in DOMAIN packs :
          LET current == ApplyPacks(BASE_ROLES_11, SubSeq(packs, 1, n - 1))
              one == <<packs[n]>>
              result == applyPackSubstitution(current, packs[n])
          IN current # <<>> =>
               IF \A r \in AllRoles : Declared(one, "replaces", r) <= Occurrences(current, r)
               THEN /\ Len(result) = 11
                    /\ \A r \in AllRoles :
                         Occurrences(result, r) =
                           Occurrences(current, r) - Declared(one, "replaces", r)
                             + Declared(one, "newRoles", r)
               ELSE result = <<>>
     /\ (ret.of = "buildRoles" /\ ValidPackList(packs)) =>
          \A r \in AllRoles :
            Occurrences(ret.value, r) =
              Occurrences(BASE_ROLES_11, r) - Declared(packs, "replaces", r)
                + Declared(packs, "newRoles", r)

\* FOX then HUNTER: one FOX, one HUNTER and three VILLAGERs
C21_Witness ==
  /\ ret.of = "buildRoles"
  /\ state.config.packs = <<"FOX", "HUNTER">>
  /\ Occurrences(ret.value, "FOX") = 1
  /\ Occurrences(ret.value, "HUNTER") = 1
  /\ Occurrences(ret.value, "VILLAGER") = 3
  /\ Len(ret.value) = 11

\* every one of the 100 candidate pack sets sampled for the seed fails validation
AllAttemptsFail(seed) ==
  LET numPacks == RngNextInt(RngNew(seed), 0, 4)
  IN /\ numPacks > 0
     /\ \A k \in 0..99 :
          ~ValidPackList(selectRandomPacks(
             RngAfterDraws(RngNew(seed), 1 + k * (Len(allPacks) - 1)), numPacks))

C23_OracleMapping ==
  /\ ret.of = "getDivinationResult" =>
       ret.value = IF ret.role \in {"WEREWOLF", "FANATIC"} THEN "WEREWOLF" ELSE "HUMAN"
  /\ ret.of = "getMediumResult" =>
       ret.value = IF ret.role \in {"WEREWOLF", "WHITE_WOLF"} THEN "WEREWOLF" ELSE "HUMAN"

\* the medium was asked about a FANATIC and learnt HUMAN
C23_Witness ==
  /\ ret.of = "getMediumResult"
  /\ ret.role = "FANATIC"
  /\ ret.value = "HUMAN"

\* C24: in a voting round, a submission by a living voter p for a living
\* target t leaves t as the recorded vote of p, whatever p had recorded
\* before, and leaves the recorded votes of the other voters as they were,
\* on each submission path: VoteCollector.submitVote, the VOTE event and
\* RoomManager.submitVote.
C24_LastVoteWins ==
  state.phase \in {"DAY_VOTE", "DAY_REVOTE"} =>
    \A p, t \in 1..MaxVoter :
      (SeqHas(state.alivePlayers, p) /\ SeqHas(state.alivePlayers, t)) =>
        LET Recorded(votes) ==
              /\ MapGet(votes, p, NoPlayer) = t
              /\ \A q \in AllIds \ {p} :
                   MapGet(votes, q, NoPlayer) = MapGet(state.votes, q, NoPlayer)
        IN /\ Recorded(submitVote(state.votes, [playerId |-> p, targetPlayerId |-> t]))
           /\ \A r \in Outcomes(state, Event("VOTE", p, t, "none")) : Recorded(r.state.votes)
           /\ \A r \in roomSubmitVote(state, p, t) : Recorded(r.state.votes)

RECURSIVE SumSeq(_)
SumSeq(seq) == IF seq = <<>> THEN 0 ELSE Head(seq) + SumSeq(Tail(seq))

\* C25: finalizeVotes returns a result in which every living player has
\* exactly one vote, the submitted one where the player has submitted a
\* vote, and in which the counts of all targets add up to the number of
\* living players.
C25_VoteCompleteness ==
  ret.of = "finalizeVotes" =>
    /\ ~ret.value.threw
    /\ \A p \in Range(state.alivePlayers) :
         /\ Cardinality({i \in DOMAIN ret.value.votes : ret.value.votes[i].k = p}) = 1
         /\ MapHas(state.votes, p) =>
              MapGet(ret.value.votes, p, NoPlayer) = MapGet(state.votes, p, NoPlayer)
    /\ SumSeq(MapValues(ret.value.counts)) = Len(state.alivePlayers)

\* lastBelief.suspectId of a player of state.players, NoPlayer for none
BeliefOf(s, id) == s.players[CHOOSE i \in DOMAIN s.players : s.players[i].id = id].lastBelief

\* C26: the vote synthesized at finalize for a living player who has not
\* voted is the player's stated suspicion when the player has stated one
\* (about a living player other than the player), and is in every case a
\* living player other than the voter; the same holds for the vote the
\* fallback engine generates for such a player.
C26_FallbackVotePolicy ==
  LET Policy(voter, target) ==
        /\ target # voter
        /\ SeqHas(state.alivePlayers, target)
        /\ (/\ BeliefOf(state, voter) # NoPlayer
            /\ BeliefOf(state, voter) # voter
            /\ SeqHas(state.alivePlayers, BeliefOf(state, voter)))
             => target = BeliefOf(state, voter)
  IN /\ (ret.of = "finalizeVotes" /\ ~ret.value.threw) =>
          \A voter \in Range(state.alivePlayers) :
            (~MapHas(state.votes, voter) /\ MapHas(ret.value.votes, voter)) =>
              Policy(voter, MapGet(ret.value.votes, voter, NoPlayer))
     /\ ret.of = "generateFallbackVote" => Policy(ret.playerId, ret.value)

\* C27: in the result of finalizeVotes the executed player is a target with
\* the maximum number of votes of the completed votes; tieResolved is false
\* when one target alone holds the maximum and true when several share it.
C27_ExecutionSelection ==
  (ret.of = "finalizeVotes" /\ ~ret.value.threw) =>
    LET votes == ret.value.votes
        Tally(t) == Cardinality({i \in DOMAIN votes : votes[i].v = t})
        top == {t \in 1..MaxVotePlayers :
                  Tally(t) > 0 /\ \A u \in 1..MaxVotePlayers : Tally(u) <= Tally(t)}
    IN /\ ret.value.executedPlayerId \in top
       /\ ret.value.tieResolved = (Cardinality(top) > 1)

\* three voters voting in a cycle: one of the three is executed, tieResolved
C27_Witness ==
  /\ ret.of = "finalizeVotes"
  /\ state.votes = <<[k |-> 1, v |-> 2], [k |-> 2, v |-> 3], [k |-> 3, v |-> 1]>>
  /\ ret.value.executedPlayerId \in 1..3
  /\ ret.value.tieResolved

\* C28: the player finalizeVotes selects for execution is the same for every
\* order in which the same votes were submitted, the state (alive players,
\* seed, day number) being the same, so that the same tied candidates always
\* resolve to the same player.
C28_TieDeterminism ==
  (ret.of = "finalizeVotes" /\ ~ret.value.threw) =>
    \A other \in VoteMaps(Range(state.alivePlayers), Range(state.alivePlayers)) :
      Range(other) = Range(state.votes) =>
        finalizeVotes(state, other).executedPlayerId = ret.value.executedPlayerId

\* C29: in every reachable state a VOTE event whose voter is not alive or
\* whose target is not alive ends with an error and leaves the votes map,
\* and so the recorded votes of all other players, exactly as it was.
C29_DeadVoteRejected ==
  \A p, t \in AllIds :
    (~SeqHas(state.alivePlayers, p) \/ ~SeqHas(state.alivePlayers, t)) =>
      \A r \in Outcomes(state, Event("VOTE", p, t, "none")) :
        /\ r.error # "none"
        /\ r.state.votes = state.votes

\* in a vote with a vote recorded and a dead player among the senders, the
\* handler has rejected a VOTE event
C29_Witness ==
  /\ state.phase \in {"DAY_VOTE", "DAY_REVOTE"}
  /\ lastError = "HandlerError"
  /\ Len(state.votes) > 0
  /\ \E p \in 1..MaxVoter : ~SeqHas(state.alivePlayers, p)

\* C30: in every reachable state a NIGHT_ACTION event and a WOLF_ATTACK
\* event end with an error and leave nightActions and wolfAttacks unchanged
\* whenever the actor is not alive, the target is not alive, or the role of
\* the actor does not permit the action: DIVINE is for the SEER, PROTECT for
\* the KNIGHT, the attack for WEREWOLF and WHITE_WOLF.
C30_NightSubmissionRejected ==
  LET Alive(id) == SeqHas(state.alivePlayers, id)
      Rejected(ev) ==
        \A r \in Outcomes(state, ev) :
          /\ r.error # "none"
          /\ r.state.nightActions = state.nightActions
          /\ r.state.wolfAttacks = state.wolfAttacks
  IN \A p, t \in AllIds :
       /\ (~Alive(p) \/ ~Alive(t) \/ RoleIn(state, p) # "SEER")
            => Rejected(Event("NIGHT_ACTION", p, t, "DIVINE"))
       /\ (~Alive(p) \/ ~Alive(t) \/ RoleIn(state, p) # "KNIGHT")
            => Rejected(Event("NIGHT_ACTION", p, t, "PROTECT"))
       /\ (~Alive(p) \/ ~Alive(t) \/ RoleIn(state, p) \notin {"WEREWOLF", "WHITE_WOLF"})
            => Rejected(Event("WOLF_ATTACK", p, t, "none"))

\* C31: in INIT with a player list whose length differs from the 11 roles,
\* ROLES_ASSIGNED ends with an error and changes nothing: the phase stays
\* INIT and roleAssignments stays empty.
C31_SizeMismatchRejected ==
  (state.phase = "INIT" /\ Len(state.players) # Len(BASE_ROLES_11)) =>
    /\ state.roleAssignments = <<>>
    /\ \A r \in Outcomes(state, Plain("ROLES_ASSIGNED")) :
         /\ r.error # "none"
         /\ r.state = state

\* ROLES_ASSIGNED was rejected for a list of 10 or 12 players
C31_Witness ==
  /\ state.phase = "INIT"
  /\ lastError = "HandlerError"
  /\ Len(state.players) # Len(BASE_ROLES_11)
  /\ state.roleAssignments = <<>>

\* the callers whose fn has started and has not settled
Running == {c \in Callers : mutex.pc[c] = "running"}

\* the callers that called runExclusive and whose fn has not started
Pending == {c \in Callers : mutex.pc[c] \in {"waiting", "woken"}}

\* C32: at most one fn passed to runExclusive of one mutex runs at a time: a
\* fn starts only while no other is between its start and its settlement,
\* and isLocked() is true exactly while one is running
C32_MutualExclusion ==
  /\ Cardinality(Running) <= 1
  /\ mutex.locked <=> Running # {}

\* a second caller arrived while a fn was running and was suspended
C32_Witness ==
  /\ Cardinality(Running) = 1
  /\ Len(mutex.queue) > 0
  /\ mutex.settled # "none"

\* C33: the callers' fns start in the order in which the callers called
\* runExclusive: a caller whose fn starts is the earliest of the callers
\* still pending, also when it calls just after a release that woke a waiter
C33_FifoOrder ==
  [][\A c \in Callers :
       (mutex.pc[c] # "running" /\ mutex'.pc[c] = "running") =>
         (mutex.calls = <<>> \/ Head(mutex.calls) = c)]_vars

\* C40: the lock is released when the fn resolves and when it throws, no
\* waiter stays queued while the lock is free and nothing will wake it, and
\* every caller of runExclusive eventually runs its fn
C40_Progress ==
  /\ [](mutex.settled # "none" /\ Running = {} => ~mutex.locked)
  /\ [](Len(mutex.queue) > 0 => (mutex.locked \/ Len(mutex.woken) > 0))
  /\ \A c \in Callers : (c \in Pending) ~> (mutex.pc[c] = "running")

\* the two safety parts of C40 on their own
MutexReleased == mutex.settled # "none" /\ Running = {} => ~mutex.locked
NoLostWakeup == Len(mutex.queue) > 0 => (mutex.locked \/ Len(mutex.woken) > 0)

\* the host entries that run the deadline function of lines 82-85
PendingDeadlines == {i \in DOMAIN timer.host : timer.host[i].kind = "deadline"}

\* the entries of the log that come from start number g
LogOf(g, kind) == {i \in DOMAIN timer.log : timer.log[i].by = g /\ timer.log[i].kind = kind}

\* C34: at most one deadline callback is pending and every pending timeout
\* belongs to the timer that is running; a callback of a timer that a later
\* start replaced or that clear cancelled never fires; a second clear, or a
\* clear with no timer running, changes nothing; a deadline fires its
\* callback at most once
C34_ReplaceAndCancel ==
  /\ Cardinality(PendingDeadlines) <= 1
  /\ \A i \in DOMAIN timer.host :
       /\ timer.host[i].by = timer.callback
       /\ timer.host[i].id \in {timer.timeoutId} \cup Range(timer.warningTimeouts)
  /\ \A i \in DOMAIN timer.log :
       /\ timer.log[i].gen = timer.log[i].by
       /\ timer.cancelledAt[timer.log[i].by] = -1 \/ i <= timer.cancelledAt[timer.log[i].by]
  /\ clear(clear(timer)) = clear(timer)
  /\ ~isActive(timer) => /\ clear(timer).host = timer.host
                          /\ ~isActive(clear(timer))
                          /\ clear(timer).log = timer.log
  /\ \A g \in Starts : Cardinality(LogOf(g, "deadline")) <= 1

\* a timer with warnings pending was replaced, and the replacement fired
C34_Witness ==
  /\ timer.starts >= 2
  /\ timer.started[1].warn /\ timer.started[1].delay > 10
  /\ LogOf(1, "deadline") = {}
  /\ LogOf(2, "deadline") # {}
  /\ timer.last.op = "clear"

\* C35: a warning for threshold T fires at most once and only if the
\* remaining time at start was greater than T; warnings fire in the order
\* 60, 30, 10, each before the deadline callback, and none fires after the
\* deadline callback or after clear
C35_Warnings ==
  \A i \in DOMAIN timer.log :
    LET w == timer.log[i]
    IN w.kind = "warning" =>
         /\ w.seconds \in Range(warnings)
         /\ timer.started[w.by].warn
         /\ timer.started[w.by].delay > w.seconds
         /\ w.gen = w.by
         /\ timer.cancelledAt[w.by] = -1 \/ i <= timer.cancelledAt[w.by]
         /\ \A j \in DOMAIN timer.log :
              LET x == timer.log[j]
              IN x.by = w.by =>
                   /\ (x.kind = "warning" /\ x.seconds = w.seconds) => j = i
                   /\ (x.kind = "warning" /\ x.seconds < w.seconds) => i < j
                   /\ x.kind = "deadline" => i < j

\* all three warnings and then the deadline of one start have fired
C35_Witness ==
  \E g \in Starts :
    /\ Cardinality(LogOf(g, "warning")) = 3
    /\ LogOf(g, "deadline") # {}

\* C39: a timer started from inside the deadline callback of the same
\* PhaseTimer is active when that callback has returned
C39_NestedStartSurvives ==
  (timer.last.op = "deadline" /\ timer.last.nested > 0) => isActive(timer)

\* a handler is registered for the pair exactly when the table has an entry
RegistryMatchesTable ==
  \A p \in Phases, e \in EventTypes :
    getHandler(p, e) # "undefined" <=> isValidTransition(p, e)

\* the registered handler of an entry of the table returns the table's phase
HandlersFollowTable ==
  \A ev \in SomeEvents :
    (isValidTransition(state.phase, ev.type) /\ getHandler(state.phase, ev.type) # "undefined") =>
      \A r \in Run(getHandler(state.phase, ev.type), state, ev) :
        r.error = "none" => r.state.phase = getNextPhase(state.phase, ev.type)

\* C36: the transition table and the handler registry agree: a handler is
\* registered for (phase, event) if and only if PHASE_TRANSITIONS has an
\* entry for it, and the phase of the state the handler returns is the
\* next phase the table names
C36_TableRegistryAgree == RegistryMatchesTable /\ HandlersFollowTable

\* C37: whenever the phase is GAME_OVER the winner field of the state is set
\* and is the winner VictoryChecker.check reports for the final state
C37_WinnerRecorded ==
  state.phase = "GAME_OVER" =>
    /\ state.winner # "undefined"
    /\ state.winner = check(state)

\* the players that have a record in the log of deaths
Recorded(s) == {s.deaths[i].playerId : i \in DOMAIN s.deaths}

\* a player has a record exactly when not alive, and no player has two records
DeathsConsistent(s) ==
  /\ \A i \in DOMAIN s.players :
       (s.players[i].id \in Recorded(s)) <=> ~SeqHas(s.alivePlayers, s.players[i].id)
  /\ \A i, j \in DOMAIN s.deaths : s.deaths[i].playerId = s.deaths[j].playerId => i = j

\* the lists of deaths a night can report: one or two of the living
NightDeathLists(s) ==
  {<<>>} \cup {<<a>> : a \in Range(s.alivePlayers)}
         \cup {d \in Range(s.alivePlayers) \X Range(s.alivePlayers) : d[1] # d[2]}

\* after role assignment the log matches the alive set, and also after the
\* deaths of a night have been applied
DeathsMatchAlive ==
  state.roleAssignments # <<>> =>
    /\ DeathsConsistent(state)
    /\ \A deaths \in NightDeathLists(state) :
         /\ DeathsConsistent(applyNightDeaths(state, deaths))
         /\ SubSeq(applyNightDeaths(state, deaths).deaths, 1, Len(state.deaths)) = state.deaths

\* a step keeps the records of the log where they are
DeathsAppendOnly ==
  [][/\ Len(state'.deaths) >= Len(state.deaths)
     /\ SubSeq(state'.deaths, 1, Len(state.deaths)) = state.deaths]_vars

\* C38: the log of deaths is append-only (no record is removed or moved),
\* and in every state after role assignment a player has a record in deaths
\* if and only if the player is not in alivePlayers, with at most one record
\* for each player
C38_DeathsLog == []DeathsMatchAlive /\ DeathsAppendOnly

\* an executed hunter has shot a player: two records of the same day
C38_Witness ==
  /\ state.roleAssignments # <<>>
  /\ \E i, j \in DOMAIN state.deaths :
       /\ i < j
       /\ state.deaths[i].deathType = "EXECUTED"
       /\ state.deaths[j].deathType = "HUNTER"
  /\ state.phase = "NIGHT_WOLF_CHAT"

=============================================================================
